---- MODULE Spec2Model ----
(***************************************************************************)
(* The connection lifecycle engine of twistedpusher: the Timeout           *)
(* primitive, the Transport (connect scheduling, backoff, attempt          *)
(* timeout) and the Connection (Pusher state machine, keepalive, error     *)
(* handling).  Handlers are sequential code that call each other, so each  *)
(* one is an operator from a snapshot of the program state (a record) to   *)
(* the snapshot after it returned; an action applies one handler to the    *)
(* current state.  Time is the reactor's clock, in seconds.                *)
(***************************************************************************)
EXTENDS Integers, Sequences, FiniteSets, TLC

VARIABLES
    c_running,          \* Connection.running (MultiService)
    c_state,            \* Connection._state
    c_prev_state,       \* Connection.prev_state
    socket_id,          \* Connection.socket_id
    activity_timeout,   \* Connection.activity_timeout (a Timeout)
    pong_timeout,       \* Connection.pong_timeout (a Timeout)
    unavailable_timeout,\* Connection.unavailable_timeout (a Timeout)
    t_running,          \* Transport.running (Service)
    t_state,            \* Transport._state
    t_prev_state,       \* Transport.prev_state
    connect_attempt,    \* Transport.connect_attempt: what the Deferred is
    connect_wait,       \* seconds left on deferLater's delayed call
    connect_attempt_count,   \* Transport.connect_attempt_count
    connect_attempt_timeout, \* Transport.connect_attempt_timeout (a Timeout)
    protocol,           \* Transport.protocol: the socket's condition
    step,               \* the operation that ran last
    t_events,           \* events the Transport emitted in the last step
    c_events,           \* events the Connection emitted in the last step
    frames,             \* events given to protocol.send_event in the last step
    transport_sends,    \* events given to Transport.send_event in the last step
    disconnect_calls,   \* calls of protocol.disconnect() in the last step
    endpoint_connects,  \* calls of endpoint.connect() in the last step
    channel_events,     \* events given to on_channel_event in the last step
    raised,             \* exception that left the last step's handler
    received,           \* the event the socket delivered in the last step
    failed_attempts,    \* history: _failed calls since the last _connected
    failed_since_start, \* history: the same, counted from startService too
    waited,             \* history: seconds since _connect scheduled do_connect
    ever_stopped,       \* history: stopService has been called
    restarted,          \* history: startService has been called after it
    fatal,              \* history: a fatal pusher:error on an open socket
                        \* stopped the service, which was not started since
    ping_sent,          \* history: a pusher:ping frame went out on the socket,
                        \* and no pusher:pong or 'disconnected' came since
    channels,           \* PusherService.channels: the Channel under each name
    connected_listeners,\* Connection.listeners['connected']: the Channels whose
                        \* _on_pusher_connect is bound
    called_with,        \* the name given to subscribe/unsubscribe in the last step
    returned,           \* the Channel that subscribe returned in the last step
    channel_emits,      \* calls of emit_event on a Channel in the last step
    client_events,      \* events the PusherService emitted in the last step
    codec_event,        \* the Event given to serialize_pusher_event
    codec_text,         \* the text it returned
    codec_loaded,       \* the Event load_pusher_event made of that text
    codec_raised,       \* the exception that left one of the two
    listeners,          \* EventEmitter.listeners of an emitter of its own
    global_listeners,   \* EventEmitter.global_listeners of that emitter
    emitted,            \* the name of the event its emit_event was called with
    calls,              \* the listeners that emit_event called, in order
    emitter_raised,     \* the exception that left the emitter's last method
    timer,              \* a Timeout of its own: duration and its DelayedCall
    timed_out,          \* Timeout.timed_out of that Timeout
    callbacks,          \* calls of its callback in the last step
    timer_step          \* the method of it that ran last

vars == <<c_running, c_state, c_prev_state, socket_id, activity_timeout,
          pong_timeout, unavailable_timeout, t_running, t_state, t_prev_state,
          connect_attempt, connect_wait, connect_attempt_count,
          connect_attempt_timeout, protocol, step, t_events, c_events, frames,
          transport_sends, disconnect_calls, endpoint_connects, channel_events,
          raised, received, failed_attempts, failed_since_start, waited,
          ever_stopped, restarted, fatal, ping_sent, channels,
          connected_listeners, called_with, returned,
          channel_emits, client_events, codec_event, codec_text, codec_loaded,
          codec_raised, listeners, global_listeners, emitted, calls,
          emitter_raised, timer, timed_out, callbacks, timer_step>>

emitter_vars == <<listeners, global_listeners, emitted, calls, emitter_raised>>

service_vars ==
    <<c_running, c_state, c_prev_state, socket_id, activity_timeout,
      pong_timeout, unavailable_timeout, t_running, t_state, t_prev_state,
      connect_attempt, connect_wait, connect_attempt_count,
      connect_attempt_timeout, protocol, step, t_events, c_events, frames,
      transport_sends, disconnect_calls, endpoint_connects, channel_events,
      raised, received, failed_attempts, failed_since_start, waited,
      ever_stopped, restarted, fatal, ping_sent, channels,
      connected_listeners, called_with, returned, channel_emits, client_events>>

codec_vars == <<codec_event, codec_text, codec_loaded, codec_raised>>

timeout_vars == <<timer, timed_out, callbacks, timer_step>>

(***************************************************************************)
(* Program constants                                                       *)
(***************************************************************************)
MAX_RECONNECT_DELAY == 10
TIME_BEFORE_UNAVAILABLE_STATE == 30
ACTIVITY_TIMEOUT_DURATION == 120
PONG_TIMEOUT_DURATION == 30
CONNECT_ATTEMPT_TIMEOUT_DURATION == 30

CONNECTION_ESTABLISHED == "pusher:connection_established"
PING == "pusher:ping"
PONG == "pusher:pong"
ERROR == "pusher:error"

CONNECTION_STATES ==
    {"initialized", "connecting", "connected", "unavailable", "disconnected"}
TRANSPORT_STATES ==
    {"connected", "disconnected", "connecting", "disconnecting", "reconnecting"}
ERROR_CODES ==
    {4000, 4001, 4003, 4004, 4005, 4006, 4007, 4008, 4100, 4200, 4201, 4202, 4301}

(***************************************************************************)
(* Bounds of the model                                                     *)
(***************************************************************************)
\* connect attempts in a row without a success that the model follows
MaxAttempts == 6

\* values the server may announce as activity_timeout (the client's own is 120)
ServerActivityTimeouts == {60}
\* socket ids the server may assign
SocketIds == {"a"}
\* codes a pusher:error may carry: a falsy one, a fatal one of ERROR_CODES, a
\* fatal one that is not in it, the first code past the fatal range (in
\* ERROR_CODES), and one past the range that is not in it
ErrorCodeInputs == {0, 4001, 4002, 4100, 4300}

\* Channel objects bound on the Connection that the model follows
MaxChannels == 2

\* names the user may give to subscribe and unsubscribe: two public ones, a
\* private one, a presence one, and one with a character that is not allowed
ChannelNameInputs == {"x", "y", "private-x", "presence-x", "x1"}

\* the characters of each of these names
Chars ==
    [n \in ChannelNameInputs |->
        CASE n = "x" -> <<"x">>
          [] n = "y" -> <<"y">>
          [] n = "private-x" -> <<"p", "r", "i", "v", "a", "t", "e", "-", "x">>
          [] n = "presence-x" -> <<"p", "r", "e", "s", "e", "n", "c", "e", "-", "x">>
          [] n = "x1" -> <<"x", "1">>]

\* registrations (global or by name) that the model lets an emitter hold
MaxRegistrations == 3

\* the names of the events that the emitter of its own is used with
EmitterEventNames == {"an:event", "wrong:event"}

\* what may be given to bind and bind_all: whether it is callable, what
\* calling it raises, and whether it has a __name__ (functions and methods
\* have one, a functools.partial or a Mock has none)
Callable(id, raises, has_name) ==
    [id |-> id, callable |-> TRUE, raises |-> raises, has_name |-> has_name]

ListenerInputs ==
    {Callable("m", "", TRUE), Callable("bad_cb", "ValueError", TRUE),
     Callable("raise_it", "AssertionError", TRUE),
     Callable("partial", "ValueError", FALSE),
     [id |-> "{}", callable |-> FALSE, raises |-> "", has_name |-> FALSE]}

\* the longest duration, in seconds, given to the Timeout of its own
MaxDuration == 8

Max(a, b) == IF a >= b THEN a ELSE b
Min(a, b) == IF a <= b THEN a ELSE b

(***************************************************************************)
(* Events.  An Event is a dict; the fields an event does not carry are     *)
(* held at a neutral value so that all records have one shape.             *)
(***************************************************************************)
NoData ==
    [has_socket_id |-> FALSE, socket_id |-> "",
     has_activity_timeout |-> FALSE, activity_timeout |-> 0,
     has_code |-> FALSE, code |-> 0, has_message |-> FALSE,
     has_channel |-> FALSE, channel |-> ""]

Event(name) ==
    [name |-> name, has_channel |-> FALSE, channel |-> "", data |-> NoData,
     previous |-> "", current |-> "", delay |-> 0]

(***************************************************************************)
(* utils.Timeout: duration, and the pending DelayedCall (_timer) given by  *)
(* active and the seconds left until it fires.                             *)
(***************************************************************************)
Timeout(duration) == [duration |-> duration, active |-> FALSE, left |-> 0]

\* start that arms the timer again when it is armed already
Timeout_start_again(t) == [t EXCEPT !.active = TRUE, !.left = t.duration]

Timeout_start(t) ==
    IF ~t.active THEN [t EXCEPT !.active = TRUE, !.left = t.duration] ELSE t

Timeout_stop(t) == [t EXCEPT !.active = FALSE, !.left = 0]

\* duration 0 stands for the falsy values (None, 0) of the parameter
Timeout_reset(t, duration) ==
    IF t.active
    THEN LET d == IF duration # 0 THEN duration ELSE t.duration
         IN [t EXCEPT !.duration = d, !.left = d]
    ELSE t

\* the part of _trigger that precedes the callback
Timeout_trigger(t) == [t EXCEPT !.active = FALSE, !.left = 0]

Due(t) == t.active /\ t.left = 0

(***************************************************************************)
(* Sending: Transport.send_event and Connection.send_event                 *)
(***************************************************************************)
Transport_send_event(s, event) ==
    LET s1 == [s EXCEPT !.transport_sends = Append(@, event)]
    IN IF s1.t_state = "connected"
       THEN [s1 EXCEPT !.frames = Append(@, event),
                       !.ping_sent = IF event.name = PING THEN TRUE ELSE @]
       ELSE s1

\* send_event that also sends while connecting
Connection_send_event_lax(s, event) ==
    IF s.c_state \in {"connected", "connecting"}
    THEN Transport_send_event(s, event)
    ELSE [s EXCEPT !.raised = "ConnectionError"]

Connection_send_event(s, event) ==
    IF s.c_state = "connected"
    THEN Transport_send_event(s, event)
    ELSE [s EXCEPT !.raised = "ConnectionError"]

(***************************************************************************)
(* Channel: a Channel object is its name and its identity.  The objects    *)
(* that stay alive are those bound on the Connection, so the identity of a *)
(* new object is their number plus one.                                    *)
(***************************************************************************)
NoChannel == [name |-> "", id |-> 0]

SUBSCRIBE == "pusher:subscribe"
UNSUBSCRIBE == "pusher:unsubscribe"
SUBSCRIPTION_SUCCEEDED_INTERNAL == "pusher_internal:subscription_succeeded"
SUBSCRIPTION_SUCCEEDED == "pusher:subscription_succeeded"

\* the characters that VALID_CHANNEL_NAME admits
VALID_CHANNEL_NAME ==
    {"a", "b", "c", "d", "e", "f", "g", "h", "i", "j", "k", "l", "m", "n", "o",
     "p", "q", "r", "s", "t", "u", "v", "w", "x", "y", "z",
     "A", "B", "C", "D", "E", "F", "G", "H", "I", "J", "K", "L", "M", "N", "O",
     "P", "Q", "R", "S", "T", "U", "V", "W", "X", "Y", "Z",
     "_", "-", "=", "@", ",", ".", ";"}

\* VALID_CHANNEL_NAME.match(channel_name): one or more admitted characters
match(channel_name) ==
    /\ Len(Chars[channel_name]) >= 1
    /\ \A i \in DOMAIN Chars[channel_name] :
          Chars[channel_name][i] \in VALID_CHANNEL_NAME

\* channel_name.startswith(prefix), the prefix given by its characters
startswith(channel_name, prefix) ==
    /\ Len(prefix) <= Len(Chars[channel_name])
    /\ SubSeq(Chars[channel_name], 1, Len(prefix)) = prefix

\* the data of the events a Channel sends: {'channel': name}
ChannelData(name) == [NoData EXCEPT !.has_channel = TRUE, !.channel = name]

Channel_subscribe(s, chan) ==
    Connection_send_event(s, [Event(SUBSCRIBE) EXCEPT !.data = ChannelData(chan.name)])

Channel_unsubscribe(s, chan) ==
    Connection_send_event(s, [Event(UNSUBSCRIBE) EXCEPT !.data = ChannelData(chan.name)])

_on_pusher_connect(s, chan) == Channel_subscribe(s, chan)

\* Channel.__init__: the name is checked and then the listener is bound on
\* the Connection
Channel_init(s, channel_name) ==
    LET chan == [name |-> channel_name, id |-> Cardinality(s.connected_listeners) + 1]
    IN IF ~match(channel_name) \/ Len(Chars[channel_name]) = 0
       THEN [s EXCEPT !.raised = "BadChannelNameError"]
       ELSE [s EXCEPT !.connected_listeners = @ \cup {chan}]

PrivateChannel_init(s, channel_name) ==
    LET s1 == Channel_init(s, channel_name)
    IN IF s1.raised # "" THEN s1 ELSE [s1 EXCEPT !.raised = "NotImplementedError"]

PresenceChannel_init(s, channel_name) ==
    LET s1 == Channel_init(s, channel_name)
    IN IF s1.raised # "" THEN s1 ELSE [s1 EXCEPT !.raised = "NotImplementedError"]

\* the Channel it made, unless a constructor raised, is the newest one bound
buildChannel(s, channel_name) ==
    IF startswith(channel_name, <<"p", "r", "e", "s", "e", "n", "c", "e", "-">>)
    THEN PresenceChannel_init(s, channel_name)
    ELSE IF startswith(channel_name, <<"p", "r", "i", "v", "a", "t", "e", "-">>)
    THEN PrivateChannel_init(s, channel_name)
    ELSE Channel_init(s, channel_name)

(***************************************************************************)
(* Connection: state setter and the listener of the Transport's events     *)
(***************************************************************************)
\* the part of emit_event that calls the Channels bound to 'connected', from
\* the i-th Channel object on: a set has no order of its own, the model takes
\* the order of construction; an exception of a listener other than
\* AssertionError becomes a warning
RECURSIVE Connection_call_listeners(_, _)
Connection_call_listeners(s, i) ==
    IF i > Cardinality(s.connected_listeners) THEN s
    ELSE LET bound == {chan \in s.connected_listeners : chan.id = i}
             s1 == IF bound = {} THEN s
                   ELSE _on_pusher_connect(s, CHOOSE chan \in bound : TRUE)
         IN IF s1.raised = "AssertionError" THEN s1
            ELSE Connection_call_listeners([s1 EXCEPT !.raised = ""], i + 1)

\* EventEmitter.emit_event on the Connection: listeners observe the event
Connection_emit_event(s, event) ==
    LET s1 == [s EXCEPT !.c_events = Append(@, event)]
    IN IF event.name = "connected" THEN Connection_call_listeners(s1, 1) ELSE s1

\* the setter without its new_state != _state test
Connection_set_state_always(s, new_state) ==
    LET s1 == [s EXCEPT !.c_prev_state = s.c_state, !.c_state = new_state]
        s2 == Connection_emit_event(s1,
                 [Event(new_state) EXCEPT !.previous = s1.c_prev_state])
    IN Connection_emit_event(s2,
                 [Event("state_change") EXCEPT !.current = new_state,
                                               !.previous = s1.c_prev_state])

\* the setter that clears socket_id when the state leaves 'connected'
Connection_set_state_clearing(s, new_state) ==
    IF new_state # s.c_state
    THEN LET s1 == [s EXCEPT !.c_prev_state = s.c_state, !.c_state = new_state,
                             !.socket_id = IF s.c_state = "connected" THEN "" ELSE @]
             s2 == Connection_emit_event(s1,
                      [Event(new_state) EXCEPT !.previous = s1.c_prev_state])
         IN Connection_emit_event(s2,
                      [Event("state_change") EXCEPT !.current = new_state,
                                                    !.previous = s1.c_prev_state])
    ELSE s

Connection_set_state(s, new_state) ==
    IF new_state # s.c_state
    THEN LET s1 == [s EXCEPT !.c_prev_state = s.c_state, !.c_state = new_state]
             s2 == Connection_emit_event(s1,
                      [Event(new_state) EXCEPT !.previous = s1.c_prev_state])
         IN Connection_emit_event(s2,
                      [Event("state_change") EXCEPT !.current = new_state,
                                                    !.previous = s1.c_prev_state])
    ELSE s

\* the listener without its test of running on 'disconnected'
_on_transport_event_always_connecting(s, event) ==
    IF event.name = "started_connecting"
    THEN LET s1 == Connection_set_state(s, "connecting")
         IN [s1 EXCEPT !.unavailable_timeout = Timeout_start(@)]
    ELSE IF event.name = "connected"
    THEN [s EXCEPT !.activity_timeout = Timeout_start(@)]
    ELSE IF event.name = "disconnected"
    THEN Connection_set_state(
             [s EXCEPT !.activity_timeout = IF @.active THEN Timeout_stop(@) ELSE @,
                       !.pong_timeout = IF @.active THEN Timeout_stop(@) ELSE @,
                       !.ping_sent = FALSE],
             "connecting")
    ELSE IF event.name = "connecting_in"
    THEN Connection_emit_event(s, event)
    ELSE s

\* the listener that leaves the timers running on 'disconnected'
_on_transport_event_keeps_timers(s, event) ==
    IF event.name = "started_connecting"
    THEN LET s1 == Connection_set_state(s, "connecting")
         IN [s1 EXCEPT !.unavailable_timeout = Timeout_start(@)]
    ELSE IF event.name = "connected"
    THEN [s EXCEPT !.activity_timeout = Timeout_start(@)]
    ELSE IF event.name = "disconnected"
    THEN IF s.c_running
         THEN Connection_set_state([s EXCEPT !.ping_sent = FALSE], "connecting")
         ELSE Connection_set_state([s EXCEPT !.ping_sent = FALSE], "disconnected")
    ELSE IF event.name = "connecting_in"
    THEN Connection_emit_event(s, event)
    ELSE s

\* the listener that expects a pong from the moment the socket is up
_on_transport_event_arming_pong(s, event) ==
    IF event.name = "started_connecting"
    THEN LET s1 == Connection_set_state(s, "connecting")
         IN [s1 EXCEPT !.unavailable_timeout = Timeout_start(@)]
    ELSE IF event.name = "connected"
    THEN [s EXCEPT !.activity_timeout = Timeout_start(@),
                   !.pong_timeout = Timeout_start(@)]
    ELSE IF event.name = "disconnected"
    THEN LET s1 == [s EXCEPT
                      !.activity_timeout = IF @.active THEN Timeout_stop(@) ELSE @,
                      !.pong_timeout = IF @.active THEN Timeout_stop(@) ELSE @,
                      !.ping_sent = FALSE]
         IN IF s1.c_running
            THEN Connection_set_state(s1, "connecting")
            ELSE Connection_set_state(s1, "disconnected")
    ELSE IF event.name = "connecting_in"
    THEN Connection_emit_event(s, event)
    ELSE s

\* the listener that stops the timers of a stopped service only
_on_transport_event_stops_when_stopped(s, event) ==
    IF event.name = "started_connecting"
    THEN LET s1 == Connection_set_state(s, "connecting")
         IN [s1 EXCEPT !.unavailable_timeout = Timeout_start(@)]
    ELSE IF event.name = "connected"
    THEN [s EXCEPT !.activity_timeout = Timeout_start(@)]
    ELSE IF event.name = "disconnected"
    THEN IF s.c_running
         THEN Connection_set_state([s EXCEPT !.ping_sent = FALSE], "connecting")
         ELSE Connection_set_state(
                  [s EXCEPT
                     !.activity_timeout = IF @.active THEN Timeout_stop(@) ELSE @,
                     !.pong_timeout = IF @.active THEN Timeout_stop(@) ELSE @,
                     !.ping_sent = FALSE],
                  "disconnected")
    ELSE IF event.name = "connecting_in"
    THEN Connection_emit_event(s, event)
    ELSE s

\* the listener that does not start the idle period when the socket is up
_on_transport_event_no_activity(s, event) ==
    IF event.name = "started_connecting"
    THEN LET s1 == Connection_set_state(s, "connecting")
         IN [s1 EXCEPT !.unavailable_timeout = Timeout_start(@)]
    ELSE IF event.name = "connected"
    THEN s
    ELSE IF event.name = "disconnected"
    THEN LET s1 == [s EXCEPT
                      !.activity_timeout = IF @.active THEN Timeout_stop(@) ELSE @,
                      !.pong_timeout = IF @.active THEN Timeout_stop(@) ELSE @,
                      !.ping_sent = FALSE]
         IN IF s1.c_running
            THEN Connection_set_state(s1, "connecting")
            ELSE Connection_set_state(s1, "disconnected")
    ELSE IF event.name = "connecting_in"
    THEN Connection_emit_event(s, event)
    ELSE s

_on_transport_event(s, event) ==
    IF event.name = "started_connecting"
    THEN LET s1 == Connection_set_state(s, "connecting")
         IN [s1 EXCEPT !.unavailable_timeout = Timeout_start(@)]
    ELSE IF event.name = "connected"
    THEN [s EXCEPT !.activity_timeout = Timeout_start(@)]
    ELSE IF event.name = "disconnected"
    THEN LET s1 == [s EXCEPT
                      !.activity_timeout = IF @.active THEN Timeout_stop(@) ELSE @,
                      !.pong_timeout = IF @.active THEN Timeout_stop(@) ELSE @,
                      !.ping_sent = FALSE]
         IN IF s1.c_running
            THEN Connection_set_state(s1, "connecting")
            ELSE Connection_set_state(s1, "disconnected")
    ELSE IF event.name = "connecting_in"
    THEN Connection_emit_event(s, event)
    ELSE s

(***************************************************************************)
(* Transport                                                               *)
(***************************************************************************)
\* EventEmitter.emit_event on the Transport; the Connection's
\* _on_transport_event is its global listener (bind_all in the constructor)
Transport_emit_event(s, event) ==
    _on_transport_event([s EXCEPT !.t_events = Append(@, event)], event)

Transport_set_state(s, new_state) ==
    IF new_state # s.t_state
    THEN [s EXCEPT !.t_prev_state = s.t_state, !.t_state = new_state]
    ELSE s

\* _connect that doubles the delay before its first use
_connect_doubled(s) ==
    IF s.t_state = "disconnected"
    THEN LET s1 == Transport_set_state(s, "connecting")
             connect_wait_time ==
                 Max(1, Min(MAX_RECONNECT_DELAY, 2 ^ (s1.connect_attempt_count + 1)))
             s2 == Transport_emit_event(s1,
                      [Event("connecting_in") EXCEPT !.delay = connect_wait_time])
             s3 == IF s2.connect_attempt_count = 0
                   THEN Transport_emit_event(s2, Event("started_connecting"))
                   ELSE s2
         IN [s3 EXCEPT !.connect_attempt_count = @ + 1,
                       !.waited = 0,
                       !.connect_attempt = "scheduled",
                       !.connect_wait = connect_wait_time]
    ELSE s

\* _connect that announces the start before the delay
_connect_started_first(s) ==
    IF s.t_state = "disconnected"
    THEN LET s1 == Transport_set_state(s, "connecting")
             connect_wait_time ==
                 Max(1, Min(MAX_RECONNECT_DELAY, 2 ^ s1.connect_attempt_count))
             s2 == IF s1.connect_attempt_count = 0
                   THEN Transport_emit_event(s1, Event("started_connecting"))
                   ELSE s1
             s3 == Transport_emit_event(s2,
                      [Event("connecting_in") EXCEPT !.delay = connect_wait_time])
         IN [s3 EXCEPT !.connect_attempt_count = @ + 1,
                       !.waited = 0,
                       !.connect_attempt = "scheduled",
                       !.connect_wait = connect_wait_time]
    ELSE s

\* _connect without its test of the Transport state
_connect_unguarded(s) ==
    LET s1 == Transport_set_state(s, "connecting")
        connect_wait_time ==
            Max(1, Min(MAX_RECONNECT_DELAY, 2 ^ s1.connect_attempt_count))
        s2 == Transport_emit_event(s1,
                 [Event("connecting_in") EXCEPT !.delay = connect_wait_time])
        s3 == IF s2.connect_attempt_count = 0
              THEN Transport_emit_event(s2, Event("started_connecting"))
              ELSE s2
    IN [s3 EXCEPT !.connect_attempt_count = @ + 1,
                  !.waited = 0,
                  !.connect_attempt = "scheduled",
                  !.connect_wait = connect_wait_time]

\* _connect that announces the start on every call
_connect_always_started(s) ==
    IF s.t_state = "disconnected"
    THEN LET s1 == Transport_set_state(s, "connecting")
             connect_wait_time ==
                 Max(1, Min(MAX_RECONNECT_DELAY, 2 ^ s1.connect_attempt_count))
             s2 == Transport_emit_event(s1,
                      [Event("connecting_in") EXCEPT !.delay = connect_wait_time])
             s3 == Transport_emit_event(s2, Event("started_connecting"))
         IN [s3 EXCEPT !.connect_attempt_count = @ + 1,
                       !.waited = 0,
                       !.connect_attempt = "scheduled",
                       !.connect_wait = connect_wait_time]
    ELSE s

_connect(s) ==
    IF s.t_state = "disconnected"
    THEN LET s1 == Transport_set_state(s, "connecting")
             connect_wait_time ==
                 Max(1, Min(MAX_RECONNECT_DELAY, 2 ^ s1.connect_attempt_count))
             s2 == IF connect_wait_time # 0
                   THEN Transport_emit_event(s1,
                           [Event("connecting_in") EXCEPT !.delay = connect_wait_time])
                   ELSE s1
             s3 == IF s2.connect_attempt_count = 0
                   THEN Transport_emit_event(s2, Event("started_connecting"))
                   ELSE s2
         IN [s3 EXCEPT !.connect_attempt_count = @ + 1,
                       !.waited = 0,
                       !.connect_attempt = "scheduled",
                       !.connect_wait = connect_wait_time]
    ELSE s

\* _failed that tells the listeners of a disconnection
_failed_announcing(s) ==
    LET old_state == s.t_state
        s0 == [s EXCEPT !.failed_attempts = @ + 1, !.failed_since_start = @ + 1]
        s1 == Transport_set_state(s0, "disconnected")
        s2 == Transport_emit_event(s1, Event("disconnected"))
    IN IF old_state # "disconnecting" THEN _connect(s2) ELSE s2

_failed(s) ==
    LET old_state == s.t_state
        s0 == [s EXCEPT !.failed_attempts = @ + 1, !.failed_since_start = @ + 1]
        s1 == Transport_set_state(s0, "disconnected")
    IN IF old_state # "disconnecting" THEN _connect(s1) ELSE s1

\* protocol.disconnect(): a close is sent only on an open socket
Protocol_disconnect(s) ==
    [s EXCEPT !.disconnect_calls = @ + 1,
              !.protocol = IF @ = "open" THEN "closing" ELSE @]

\* a cancel that does not reach deferLater's delayed call
Deferred_cancel_pending_only(s) ==
    IF s.connect_attempt = "pending"
    THEN _failed([s EXCEPT !.connect_attempt = "failed"])
    ELSE s

\* connect_attempt.cancel(): deferLater's Deferred cancels its delayed call and
\* has no errback of the Transport; the endpoint's Deferred fails into _failed;
\* a Deferred that fired already ignores the cancel
Deferred_cancel(s) ==
    IF s.connect_attempt = "scheduled"
    THEN [s EXCEPT !.connect_attempt = "cancelled", !.connect_wait = 0,
                   !.waited = 0]
    ELSE IF s.connect_attempt = "pending"
    THEN _failed([s EXCEPT !.connect_attempt = "failed"])
    ELSE s

_disconnect(s) ==
    LET old_state == s.t_state
        s1 == Transport_set_state(s,
                 IF s.t_running THEN "reconnecting" ELSE "disconnecting")
    IN IF old_state = "connected" THEN Protocol_disconnect(s1)
       ELSE IF old_state = "connecting" THEN Deferred_cancel(s1)
       ELSE s1

Transport_connected(s) ==
    LET s1 == Transport_set_state(s, "connected")
        s2 == [s1 EXCEPT !.protocol = "open",
                         !.failed_attempts = 0,
                         !.failed_since_start = 0,
                         !.connect_attempt_count = 0,
                         !.connect_attempt_timeout = Timeout_stop(@)]
    IN Transport_emit_event(s2, Event("connected"))

\* _lost that does not tell the listeners
_lost_silent(s) ==
    LET old_state == s.t_state
        s1 == Transport_set_state(s, "disconnected")
    IN IF old_state # "disconnecting" THEN _connect(s1) ELSE s1

_lost(s) ==
    LET old_state == s.t_state
        s1 == Transport_set_state(s, "disconnected")
        s2 == Transport_emit_event(s1, Event("disconnected"))
    IN IF old_state # "disconnecting" THEN _connect(s2) ELSE s2

Transport_startService(s) ==
    _connect([s EXCEPT !.t_running = TRUE, !.failed_since_start = 0])

Transport_stopService(s) == _disconnect([s EXCEPT !.t_running = FALSE])

reconnect(s) == _disconnect(s)

do_connect(s) ==
    [s EXCEPT !.connect_attempt = "pending",
              !.connect_wait = 0,
              !.waited = 0,
              !.endpoint_connects = @ + 1,
              !.connect_attempt_timeout = Timeout_start(@)]

(***************************************************************************)
(* Connection: sending, the control handlers and the timers' callbacks     *)
(***************************************************************************)
\* MultiService: the Connection's own flag, then its child service
Connection_startService(s) ==
    Transport_startService([s EXCEPT !.c_running = TRUE,
                                     !.restarted = s.ever_stopped,
                                     !.fatal = FALSE])

Connection_stopService(s) ==
    Transport_stopService([s EXCEPT !.c_running = FALSE, !.ever_stopped = TRUE])

keepalive(s) ==
    Connection_send_event([s EXCEPT !.pong_timeout = Timeout_start(@)], Event(PING))

go_unavailable(s) == Connection_set_state(s, "unavailable")

\* the handler entering 'connected' from 'connecting' only
Connection_connected_from_connecting(s, event) ==
    LET s1 == [s EXCEPT !.unavailable_timeout = Timeout_stop(@),
                        !.socket_id = event.data.socket_id]
        s2 == IF event.data.has_activity_timeout
              THEN [s1 EXCEPT !.activity_timeout =
                       Timeout_reset(@, event.data.activity_timeout)]
              ELSE s1
    IN IF s.c_state = "connecting" THEN Connection_set_state(s2, "connected") ELSE s2

\* the handler that does not keep the socket id
Connection_connected_no_socket_id(s, event) ==
    LET s1 == [s EXCEPT !.unavailable_timeout = Timeout_stop(@)]
    IN IF ~event.data.has_socket_id
       THEN [s1 EXCEPT !.raised = "KeyError"]
       ELSE LET s3 == IF event.data.has_activity_timeout
                      THEN [s1 EXCEPT !.activity_timeout =
                               Timeout_reset(@, event.data.activity_timeout)]
                      ELSE s1
            IN Connection_set_state(s3, "connected")

Connection_connected(s, event) ==
    LET s1 == [s EXCEPT !.unavailable_timeout = Timeout_stop(@)]
    IN IF ~event.data.has_socket_id
       THEN [s1 EXCEPT !.raised = "KeyError"]
       ELSE LET s2 == [s1 EXCEPT !.socket_id = event.data.socket_id]
                s3 == IF event.data.has_activity_timeout
                      THEN [s2 EXCEPT !.activity_timeout =
                               Timeout_reset(@, event.data.activity_timeout)]
                      ELSE s2
            IN Connection_set_state(s3, "connected")

\* the error handler that does not tell the listeners
_error_silent(s, event) ==
    IF ~event.data.has_code THEN s
    ELSE IF event.data.code = 0 THEN s
    ELSE LET err == event.data.code
         IN IF err \notin ERROR_CODES /\ ~event.data.has_message
            THEN s
            ELSE IF err >= 4000 /\ err < 4100
                 THEN Connection_stopService(
                          [s EXCEPT !.fatal = (s.protocol = "open")])
                 ELSE s

_error(s, event) ==
    LET s1 == Connection_emit_event(s, [event EXCEPT !.name = "error"])
    IN IF ~event.data.has_code THEN s1
       ELSE IF event.data.code = 0 THEN s1
       ELSE LET err == event.data.code
            IN IF err \notin ERROR_CODES /\ ~event.data.has_message
               THEN s1
               ELSE IF err >= 4000 /\ err < 4100
                    THEN Connection_stopService(
                             [s1 EXCEPT !.fatal = (s1.protocol = "open")])
                    ELSE s1

_ping(s, event) == Connection_send_event(s, Event(PONG))

\* the pong handler that closes the socket
_pong_disconnecting(s, event) ==
    reconnect([s EXCEPT !.pong_timeout = Timeout_stop(@),
                        !.activity_timeout = Timeout_start(@),
                        !.ping_sent = FALSE])

_pong(s, event) ==
    [s EXCEPT !.pong_timeout = Timeout_stop(@),
              !.activity_timeout = Timeout_start(@),
              !.ping_sent = FALSE]

(***************************************************************************)
(* PusherService: the registry of Channels                                 *)
(***************************************************************************)
\* channel_name in self.channels
Subscribed(s, channel_name) == \E chan \in s.channels : chan.name = channel_name

\* self.channels[channel_name]
Lookup(s, channel_name) == CHOOSE chan \in s.channels : chan.name = channel_name

\* emit_event on a Channel; its _on_subscription_success renames the internal
\* event and emits it once more
Channel_emit_event(s, chan, event) ==
    LET s1 == [s EXCEPT !.channel_emits = Append(@, [channel |-> chan, event |-> event])]
    IN IF event.name = SUBSCRIPTION_SUCCEEDED_INTERNAL
       THEN [s1 EXCEPT !.channel_emits =
                Append(@, [channel |-> chan,
                           event |-> [event EXCEPT !.name = SUBSCRIPTION_SUCCEEDED]])]
       ELSE s1

\* the event as the Channel's listeners left it
Emitted_by_channel(event) ==
    IF event.name = SUBSCRIPTION_SUCCEEDED_INTERNAL
    THEN [event EXCEPT !.name = SUBSCRIPTION_SUCCEEDED]
    ELSE event

\* subscribe that builds a Channel whether the name is registered or not
PusherService_subscribe_rebuilding(s, channel_name) ==
    LET s1 == buildChannel(s, channel_name)
        chan == [name |-> channel_name, id |-> Cardinality(s1.connected_listeners)]
    IN IF s1.raised # "" THEN s1
       ELSE LET s2 == IF s1.c_state = "connected"
                      THEN Channel_subscribe(s1, chan)
                      ELSE s1
            IN [s2 EXCEPT !.channels =
                              {c \in @ : c.name # channel_name} \cup {chan},
                          !.returned = chan]

PusherService_subscribe(s, channel_name) ==
    IF ~Subscribed(s, channel_name)
    THEN LET s1 == buildChannel(s, channel_name)
             chan == [name |-> channel_name, id |-> Cardinality(s1.connected_listeners)]
         IN IF s1.raised # "" THEN s1
            ELSE LET s2 == IF s1.c_state = "connected"
                           THEN Channel_subscribe(s1, chan)
                           ELSE s1
                 IN [s2 EXCEPT !.channels =
                                   {c \in @ : c.name # channel_name} \cup {chan},
                               !.returned = chan]
    ELSE [s EXCEPT !.returned = Lookup(s, channel_name)]

PusherService_unsubscribe(s, channel_name) ==
    IF Subscribed(s, channel_name)
    THEN LET chan == Lookup(s, channel_name)
             s1 == Channel_unsubscribe(s, chan)
         IN IF s1.raised # "" THEN s1
            ELSE [s1 EXCEPT !.channels = @ \ {chan}]
    ELSE s

\* the listener that gives the event to every Channel
PusherService_on_event_to_all(s, event) ==
    IF event.has_channel /\ Subscribed(s, event.channel)
    THEN LET s1 == Channel_emit_event(s, Lookup(s, event.channel), event)
             others == s1.channels \ {Lookup(s, event.channel)}
             s2 == IF others = {} THEN s1
                   ELSE Channel_emit_event(s1, CHOOSE c \in others : TRUE, event)
         IN [s2 EXCEPT !.client_events = Append(@, Emitted_by_channel(event))]
    ELSE s

\* PusherService._on_event, the Connection's on_channel_event
PusherService_on_event(s, event) ==
    IF event.has_channel /\ Subscribed(s, event.channel)
    THEN LET s1 == Channel_emit_event(s, Lookup(s, event.channel), event)
         IN [s1 EXCEPT !.client_events = Append(@, Emitted_by_channel(event))]
    ELSE s

\* the dispatch that looks at the event's name before its channel
_on_event_handlers_first(s, event) ==
    LET s1 == IF event.name = CONNECTION_ESTABLISHED THEN Connection_connected(s, event)
              ELSE IF event.name = ERROR THEN _error(s, event)
              ELSE IF event.name = PING THEN _ping(s, event)
              ELSE IF event.name = PONG THEN _pong(s, event)
              ELSE IF event.has_channel
              THEN PusherService_on_event(
                       [s EXCEPT !.channel_events = Append(@, event)], event)
              ELSE s
    IN IF s1.raised # ""
       THEN s1
       ELSE [s1 EXCEPT !.activity_timeout = Timeout_reset(@, 0)]

_on_event(s, event) ==
    LET s1 == IF event.has_channel
              THEN PusherService_on_event(
                       [s EXCEPT !.channel_events = Append(@, event)], event)
              ELSE IF event.name = CONNECTION_ESTABLISHED THEN Connection_connected(s, event)
              ELSE IF event.name = ERROR THEN _error(s, event)
              ELSE IF event.name = PING THEN _ping(s, event)
              ELSE IF event.name = PONG THEN _pong(s, event)
              ELSE s
    IN IF s1.raised # ""
       THEN s1
       ELSE [s1 EXCEPT !.activity_timeout = Timeout_reset(@, 0)]

(***************************************************************************)
(* events.serialize_pusher_event and events.load_pusher_event.  A Python   *)
(* value is its type and, for a str, its characters, for any other value   *)
(* the JSON text that json.dumps writes for it.                            *)
(***************************************************************************)
PyValue(type, repr) == [type |-> type, repr |-> repr]

PyStr(chars) == PyValue("str", chars)

\* the values that are not strings: None, booleans, numbers, dicts and lists
JsonValues ==
    {PyValue("NoneType", "null"), PyValue("bool", "false"), PyValue("bool", "true"),
     PyValue("int", "0"), PyValue("int", "1"),
     PyValue("dict", "{}"), PyValue("dict", "{\"a\": 1}"),
     PyValue("list", "[]"), PyValue("list", "[1]")}

\* bool(value)
Truthy(value) ==
    IF value.type = "str" THEN value.repr # ""
    ELSE value.repr \notin {"null", "false", "0", "{}", "[]"}

\* json.loads of a str can be done when the str is the JSON text of a value
Parses(chars) == \E v \in JsonValues : v.repr = chars

json_loads(chars) == CHOOSE v \in JsonValues : v.repr = chars

\* an Event is a dict: each of the keys it may have, and the value under it
EventDict(has_name, name, has_data, data, has_channel, channel) ==
    [has_name |-> has_name, name |-> name, has_data |-> has_data, data |-> data,
     has_channel |-> has_channel, channel |-> channel]

NoEvent == EventDict(FALSE, "", FALSE, PyStr(""), FALSE, "")

\* the text of a frame is the JSON object it writes down: the keys 'event',
\* 'data' and 'channel' it has, with their values
Text(has_event, event, has_data, data, has_channel, channel) ==
    [has_event |-> has_event, event |-> event, has_data |-> has_data, data |-> data,
     has_channel |-> has_channel, channel |-> channel]

NoText == Text(FALSE, "", FALSE, PyStr(""), FALSE, "")

\* names that start with 'pusher:' or 'pusher_internal:'
PusherNames == {"pusher:test", "pusher_internal:test"}

\* serialize that writes the data down as it is
serialize_pusher_event_keeping_data(ev) ==
    IF ~ev.has_name \/ ev.name = ""
    THEN [text |-> NoText, raised |-> "BadEventNameError"]
    ELSE [text |-> Text(TRUE, ev.name,
                        TRUE, IF ev.has_data THEN ev.data ELSE PyValue("NoneType", "null"),
                        ev.has_channel /\ ev.channel # "",
                        IF ev.has_channel THEN ev.channel ELSE ""),
          raised |-> ""]

serialize_pusher_event(ev) ==
    IF ~ev.has_name \/ ev.name = ""
    THEN [text |-> NoText, raised |-> "BadEventNameError"]
    ELSE [text |-> Text(TRUE, ev.name,
                        TRUE, IF ev.has_data /\ Truthy(ev.data) THEN ev.data ELSE PyStr(""),
                        ev.has_channel /\ ev.channel # "",
                        IF ev.has_channel THEN ev.channel ELSE ""),
          raised |-> ""]

load_pusher_event(raw_event) ==
    IF ~raw_event.has_event
    THEN [event |-> NoEvent, raised |-> "BadEventNameError"]
    ELSE LET loaded == EventDict(TRUE, raw_event.event,
                                 raw_event.has_data, raw_event.data,
                                 raw_event.has_channel, raw_event.channel)
         IN IF /\ loaded.name \in PusherNames
               /\ loaded.has_data
               /\ loaded.data.type = "str"
            THEN IF Parses(loaded.data.repr)
                 THEN [event |-> [loaded EXCEPT !.data = json_loads(loaded.data.repr)],
                       raised |-> ""]
                 ELSE [event |-> NoEvent, raised |-> "ValueError"]
            ELSE IF ~loaded.has_data
            THEN [event |-> [loaded EXCEPT !.has_data = TRUE,
                                           !.data = PyValue("dict", "{}")],
                  raised |-> ""]
            ELSE [event |-> loaded, raised |-> ""]

(***************************************************************************)
(* events.EventEmitter                                                     *)
(***************************************************************************)
\* the orders in which a set may be iterated
Orders(set) ==
    {order \in [1..Cardinality(set) -> set] :
        \A i, j \in 1..Cardinality(set) : order[i] = order[j] => i = j}

\* the loop of emit_event over the listeners that are still to be called: an
\* AssertionError of a listener is raised again; any other exception becomes
\* a warning, whose text is made with the listener's __name__
RECURSIVE emit_event(_, _)
emit_event(to_call, called) ==
    IF to_call = <<>> THEN [calls |-> called, raised |-> ""]
    ELSE LET cb == Head(to_call)
             now == Append(called, cb.id)
         IN IF cb.raises = "" THEN emit_event(Tail(to_call), now)
            ELSE IF cb.raises = "AssertionError"
            THEN [calls |-> now, raised |-> "AssertionError"]
            ELSE IF ~cb.has_name
            THEN [calls |-> now, raised |-> "AttributeError"]
            ELSE emit_event(Tail(to_call), now)

(***************************************************************************)
(* The state machine                                                       *)
(***************************************************************************)
\* the program state at the start of an operation, nothing observed yet
Cur(name) ==
    [c_running |-> c_running, c_state |-> c_state, c_prev_state |-> c_prev_state,
     socket_id |-> socket_id, activity_timeout |-> activity_timeout,
     pong_timeout |-> pong_timeout, unavailable_timeout |-> unavailable_timeout,
     t_running |-> t_running, t_state |-> t_state, t_prev_state |-> t_prev_state,
     connect_attempt |-> connect_attempt, connect_wait |-> connect_wait,
     connect_attempt_count |-> connect_attempt_count,
     connect_attempt_timeout |-> connect_attempt_timeout, protocol |-> protocol,
     step |-> name, t_events |-> <<>>, c_events |-> <<>>, frames |-> <<>>,
     transport_sends |-> <<>>, disconnect_calls |-> 0, endpoint_connects |-> 0,
     channel_events |-> <<>>, raised |-> "", received |-> Event(""),
     failed_attempts |-> failed_attempts,
     failed_since_start |-> failed_since_start, waited |-> waited,
     ever_stopped |-> ever_stopped, restarted |-> restarted, fatal |-> fatal,
     ping_sent |-> ping_sent, channels |-> channels,
     connected_listeners |-> connected_listeners,
     called_with |-> "", returned |-> NoChannel,
     channel_emits |-> <<>>, client_events |-> <<>>]

Commit(s) ==
    /\ c_running' = s.c_running
    /\ c_state' = s.c_state
    /\ c_prev_state' = s.c_prev_state
    /\ socket_id' = s.socket_id
    /\ activity_timeout' = s.activity_timeout
    /\ pong_timeout' = s.pong_timeout
    /\ unavailable_timeout' = s.unavailable_timeout
    /\ t_running' = s.t_running
    /\ t_state' = s.t_state
    /\ t_prev_state' = s.t_prev_state
    /\ connect_attempt' = s.connect_attempt
    /\ connect_wait' = s.connect_wait
    /\ connect_attempt_count' = s.connect_attempt_count
    /\ connect_attempt_timeout' = s.connect_attempt_timeout
    /\ protocol' = s.protocol
    /\ step' = s.step
    /\ t_events' = s.t_events
    /\ c_events' = s.c_events
    /\ frames' = s.frames
    /\ transport_sends' = s.transport_sends
    /\ disconnect_calls' = s.disconnect_calls
    /\ endpoint_connects' = s.endpoint_connects
    /\ channel_events' = s.channel_events
    /\ raised' = s.raised
    /\ received' = s.received
    /\ failed_attempts' = s.failed_attempts
    /\ failed_since_start' = s.failed_since_start
    /\ waited' = s.waited
    /\ ever_stopped' = s.ever_stopped
    /\ restarted' = s.restarted
    /\ fatal' = s.fatal
    /\ ping_sent' = s.ping_sent
    /\ channels' = s.channels
    /\ connected_listeners' = s.connected_listeners
    /\ called_with' = s.called_with
    /\ returned' = s.returned
    /\ channel_emits' = s.channel_emits
    /\ client_events' = s.client_events
    /\ UNCHANGED codec_vars
    /\ UNCHANGED emitter_vars
    /\ UNCHANGED timeout_vars

\* the Connection, its Transport and the PusherService after construction
InitService ==
    /\ c_running = FALSE
    /\ c_state = "initialized"
    /\ c_prev_state = "initialized"
    /\ socket_id = ""
    /\ activity_timeout = Timeout(ACTIVITY_TIMEOUT_DURATION)
    /\ pong_timeout = Timeout(PONG_TIMEOUT_DURATION)
    /\ unavailable_timeout = Timeout(TIME_BEFORE_UNAVAILABLE_STATE)
    /\ t_running = FALSE
    /\ t_state = "disconnected"
    /\ t_prev_state = "disconnected"
    /\ connect_attempt = "none"
    /\ connect_wait = 0
    /\ connect_attempt_count = 0
    /\ connect_attempt_timeout = Timeout(CONNECT_ATTEMPT_TIMEOUT_DURATION)
    /\ protocol = "none"
    /\ step = "init"
    /\ t_events = <<>>
    /\ c_events = <<>>
    /\ frames = <<>>
    /\ transport_sends = <<>>
    /\ disconnect_calls = 0
    /\ endpoint_connects = 0
    /\ channel_events = <<>>
    /\ raised = ""
    /\ received = Event("")
    /\ failed_attempts = 0
    /\ failed_since_start = 0
    /\ waited = 0
    /\ ever_stopped = FALSE
    /\ restarted = FALSE
    /\ fatal = FALSE
    /\ ping_sent = FALSE
    /\ channels = {}
    /\ connected_listeners = {}
    /\ called_with = ""
    /\ returned = NoChannel
    /\ channel_emits = <<>>
    /\ client_events = <<>>

\* nothing has been given to serialize_pusher_event
InitCodec ==
    /\ codec_event = NoEvent
    /\ codec_text = NoText
    /\ codec_loaded = NoEvent
    /\ codec_raised = ""

\* EventEmitter.__init__
InitEmitter ==
    /\ listeners = [name \in EmitterEventNames |-> {}]
    /\ global_listeners = {}
    /\ emitted = ""
    /\ calls = <<>>
    /\ emitter_raised = ""

\* a Timeout constructed with start_now=False
InitTimeout ==
    /\ timer = Timeout(MaxDuration)
    /\ timed_out = FALSE
    /\ callbacks = 0
    /\ timer_step = "init"

Init == InitService /\ InitCodec /\ InitEmitter /\ InitTimeout

\* an attempt that fails from here would make _connect count past the bound
AttemptsLeft == connect_attempt_count < MaxAttempts

\* the user starts the service
StartService ==
    /\ ~c_running
    /\ AttemptsLeft
    /\ Commit(Connection_startService(Cur("startService")))

\* the user stops the service, or the reactor's shutdown trigger does
StopService ==
    /\ Commit(Connection_stopService(Cur("stopService")))

\* the reactor runs deferLater's delayed call
DoConnect ==
    /\ connect_attempt = "scheduled"
    /\ connect_wait = 0
    /\ Commit(do_connect(Cur("do_connect")))

\* the endpoint's Deferred fires with a protocol
ConnectSucceeds ==
    /\ connect_attempt = "pending"
    /\ Commit(Transport_connected([Cur("_connected") EXCEPT !.connect_attempt = "succeeded"]))

\* the endpoint's Deferred fails
ConnectFails ==
    /\ connect_attempt = "pending"
    /\ AttemptsLeft
    /\ Commit(_failed([Cur("_failed") EXCEPT !.connect_attempt = "failed"]))

\* the socket closed: on_connection_lost fires
ConnectionLost ==
    /\ protocol \in {"open", "closing"}
    /\ Commit(_lost([Cur("_lost") EXCEPT !.protocol = "closed"]))

EstablishedEvents ==
    { [Event(CONNECTION_ESTABLISHED) EXCEPT
          !.data = [NoData EXCEPT !.has_socket_id = TRUE, !.socket_id = sid,
                                  !.has_activity_timeout = h,
                                  !.activity_timeout = IF h THEN a ELSE 0]] :
      sid \in SocketIds, h \in BOOLEAN, a \in ServerActivityTimeouts }

ErrorEvent(has_code, code, has_message) ==
    [Event(ERROR) EXCEPT
        !.data = [NoData EXCEPT !.has_code = has_code, !.code = code,
                                !.has_message = has_message]]

\* a pusher:error without a code, and one for each code; the codes that are
\* not in ERROR_CODES come with and without a message, the others without
ErrorEvents ==
    {ErrorEvent(FALSE, 0, FALSE)}
        \cup {ErrorEvent(TRUE, c, FALSE) : c \in ErrorCodeInputs}
        \cup {ErrorEvent(TRUE, c, TRUE) : c \in ErrorCodeInputs \ (ERROR_CODES \cup {0})}

ChannelEvents ==
    { [Event(n) EXCEPT !.has_channel = TRUE, !.channel = "foobar"] :
      n \in {"some_channel_event", CONNECTION_ESTABLISHED, ERROR, PING, PONG} }

ReceivedEvents ==
    EstablishedEvents \cup ErrorEvents \cup ChannelEvents
        \cup {Event(PING), Event(PONG), Event("unrecognised")}

\* a text frame arrives on the socket
Receive ==
    /\ protocol \in {"open", "closing"}
    /\ \E event \in ReceivedEvents :
          Commit(_on_event([Cur("_on_event") EXCEPT !.received = event], event))

\* the user sends an event, from a callback of something that happened
SendEvent ==
    /\ step \notin {"tick", "send_event"}
    /\ Commit(Connection_send_event(Cur("send_event"), Event("test")))

ActivityTimeoutFires ==
    /\ Due(activity_timeout)
    /\ Commit(keepalive([Cur("keepalive") EXCEPT !.activity_timeout = Timeout_trigger(@)]))

PongTimeoutFires ==
    /\ Due(pong_timeout)
    /\ Commit(reconnect([Cur("pong_timeout") EXCEPT !.pong_timeout = Timeout_trigger(@)]))

UnavailableTimeoutFires ==
    /\ Due(unavailable_timeout)
    /\ Commit(go_unavailable([Cur("go_unavailable") EXCEPT
                                 !.unavailable_timeout = Timeout_trigger(@)]))

ConnectAttemptTimeoutFires ==
    /\ Due(connect_attempt_timeout)
    /\ (t_state = "connecting" /\ connect_attempt = "pending") => AttemptsLeft
    /\ Commit(_disconnect([Cur("connect_attempt_timeout") EXCEPT
                                 !.connect_attempt_timeout = Timeout_trigger(@)]))

Tick_timer(t) == IF t.active THEN [t EXCEPT !.left = @ - 1] ELSE t

\* a second passes with nothing due
Tick ==
    /\ ~Due(activity_timeout) /\ ~Due(pong_timeout)
    /\ ~Due(unavailable_timeout) /\ ~Due(connect_attempt_timeout)
    /\ ~(connect_attempt = "scheduled" /\ connect_wait = 0)
    /\ Commit([Cur("tick") EXCEPT
                 !.activity_timeout = Tick_timer(@),
                 !.pong_timeout = Tick_timer(@),
                 !.unavailable_timeout = Tick_timer(@),
                 !.connect_attempt_timeout = Tick_timer(@),
                 !.connect_wait = IF connect_attempt = "scheduled" THEN @ - 1 ELSE @,
                 !.waited = IF connect_attempt = "scheduled" THEN @ + 1 ELSE @])

Next ==
    \/ StartService
    \/ StopService
    \/ DoConnect
    \/ ConnectSucceeds
    \/ ConnectFails
    \/ ConnectionLost
    \/ Receive
    \/ SendEvent
    \/ ActivityTimeoutFires
    \/ PongTimeoutFires
    \/ UnavailableTimeoutFires
    \/ ConnectAttemptTimeoutFires
    \/ Tick

Spec == Init /\ [][Next]_vars

(***************************************************************************)
(* The client: the same connection with the user subscribing to channels   *)
(* and unsubscribing from them, the server sending channel events, and the *)
(* reactor's clock going from one delayed call to the next.                *)
(***************************************************************************)
\* the user starts the service, once
ClientStartService ==
    /\ ~c_running
    /\ ~ever_stopped
    /\ Commit(Connection_startService(Cur("startService")))

\* the user ends a connected session
ClientStopService ==
    /\ c_running
    /\ c_state = "connected"
    /\ Commit(Connection_stopService(Cur("stopService")))

\* the user subscribes to a channel
Subscribe ==
    \E name \in ChannelNameInputs :
        /\ (\A chan \in channels : chan.name # name) =>
               Cardinality(connected_listeners) < MaxChannels
        /\ Commit(PusherService_subscribe(
                      [Cur("subscribe") EXCEPT !.called_with = name], name))

\* the user unsubscribes from a channel of the registry
Unsubscribe ==
    \E name \in {chan.name : chan \in channels} :
        Commit(PusherService_unsubscribe(
                  [Cur("unsubscribe") EXCEPT !.called_with = name], name))

ChannelEvent(name, channel) ==
    [Event(name) EXCEPT !.has_channel = TRUE, !.channel = channel]

ClientChannelEvents ==
    {ChannelEvent("some_channel_event", "x"), ChannelEvent("some_channel_event", "y"),
     ChannelEvent(SUBSCRIPTION_SUCCEEDED_INTERNAL, "x")}

ClientReceivedEvents ==
    { [Event(CONNECTION_ESTABLISHED) EXCEPT
          !.data = [NoData EXCEPT !.has_socket_id = TRUE, !.socket_id = sid]] :
      sid \in SocketIds } \cup ClientChannelEvents

\* a text frame arrives on the socket
ClientReceive ==
    /\ protocol \in {"open", "closing"}
    /\ \E event \in ClientReceivedEvents :
          Commit(_on_event([Cur("_on_event") EXCEPT !.received = event], event))

\* the seconds left on each pending delayed call
Deadlines ==
    {t.left : t \in {u \in {activity_timeout, pong_timeout, unavailable_timeout,
                             connect_attempt_timeout} : u.active}}
        \cup (IF connect_attempt = "scheduled" THEN {connect_wait} ELSE {})

Advance_timer(t, d) == IF t.active THEN [t EXCEPT !.left = @ - d] ELSE t

\* the time passes until the next delayed call is due
Advance ==
    /\ Deadlines # {}
    /\ 0 \notin Deadlines
    /\ LET d == CHOOSE x \in Deadlines : \A y \in Deadlines : x <= y
       IN Commit([Cur("advance") EXCEPT
                    !.activity_timeout = Advance_timer(@, d),
                    !.pong_timeout = Advance_timer(@, d),
                    !.unavailable_timeout = Advance_timer(@, d),
                    !.connect_attempt_timeout = Advance_timer(@, d),
                    !.connect_wait = IF connect_attempt = "scheduled" THEN @ - d ELSE @,
                    !.waited = IF connect_attempt = "scheduled" THEN @ + d ELSE @])

ClientNext ==
    \/ ClientStartService
    \/ ClientStopService
    \/ DoConnect
    \/ ConnectSucceeds
    \/ ConnectionLost
    \/ ClientReceive
    \/ Subscribe
    \/ Unsubscribe
    \/ ActivityTimeoutFires
    \/ PongTimeoutFires
    \/ UnavailableTimeoutFires
    \/ ConnectAttemptTimeoutFires
    \/ Advance

ClientSpec == Init /\ [][ClientNext]_vars

(***************************************************************************)
(* The codec: an Event is serialized and the text is loaded again          *)
(***************************************************************************)
EventNameInputs == {"", "test", "pusher:test", "pusher_internal:test"}

DataInputs ==
    JsonValues \cup {PyStr(""), PyStr("empty"), PyStr("{}"), PyStr("{\"a\": 1}")}

ChannelInputs == {"", "c"}

\* Events with and without a name, with and without data, with and without
\* a channel
EventInputs ==
    {EventDict(FALSE, "", FALSE, PyStr(""), FALSE, ""),
     EventDict(FALSE, "", TRUE, PyValue("dict", "{\"a\": 1}"), TRUE, "c")}
        \cup {EventDict(TRUE, n, FALSE, PyStr(""), FALSE, "") : n \in EventNameInputs}
        \cup {EventDict(TRUE, n, TRUE, d, FALSE, "") :
                 n \in EventNameInputs, d \in DataInputs}
        \cup {EventDict(TRUE, n, FALSE, PyStr(""), TRUE, c) :
                 n \in EventNameInputs, c \in ChannelInputs}
        \cup {EventDict(TRUE, n, TRUE, d, TRUE, c) :
                 n \in EventNameInputs, d \in DataInputs, c \in ChannelInputs}

CodecInit ==
    /\ InitService
    /\ codec_event \in EventInputs
    /\ codec_text = NoText
    /\ codec_loaded = NoEvent
    /\ codec_raised = ""
    /\ InitEmitter
    /\ InitTimeout

\* the Event is serialized
Serialize ==
    /\ codec_text = NoText /\ codec_raised = ""
    /\ LET result == serialize_pusher_event(codec_event)
       IN /\ codec_text' = result.text
          /\ codec_raised' = result.raised
    /\ UNCHANGED <<codec_event, codec_loaded>>
    /\ UNCHANGED service_vars
    /\ UNCHANGED timeout_vars
    /\ UNCHANGED emitter_vars

\* the text is loaded
Load ==
    /\ codec_text # NoText /\ codec_loaded = NoEvent /\ codec_raised = ""
    /\ LET result == load_pusher_event(codec_text)
       IN /\ codec_loaded' = result.event
          /\ codec_raised' = result.raised
    /\ UNCHANGED <<codec_event, codec_text>>
    /\ UNCHANGED service_vars
    /\ UNCHANGED timeout_vars
    /\ UNCHANGED emitter_vars

CodecNext == Serialize \/ Load

CodecSpec == CodecInit /\ [][CodecNext]_vars

(***************************************************************************)
(* The emitter: listeners are bound and unbound and events are emitted     *)
(***************************************************************************)
Registrations ==
    Cardinality(global_listeners)
        + Cardinality(listeners["an:event"]) + Cardinality(listeners["wrong:event"])

Bind ==
    \E event_name \in EmitterEventNames, listener \in ListenerInputs :
        /\ listener \notin listeners[event_name] => Registrations < MaxRegistrations
        /\ IF listener.callable
           THEN /\ listeners' = [listeners EXCEPT ![event_name] = @ \cup {listener}]
                /\ emitter_raised' = ""
           ELSE /\ listeners' = listeners
                /\ emitter_raised' = "ValueError"
        /\ emitted' = "" /\ calls' = <<>>
        /\ UNCHANGED global_listeners
        /\ UNCHANGED service_vars
        /\ UNCHANGED timeout_vars
        /\ UNCHANGED codec_vars

Unbind ==
    \E event_name \in EmitterEventNames, listener \in ListenerInputs :
        /\ listeners' = [listeners EXCEPT ![event_name] = @ \ {listener}]
        /\ emitted' = "" /\ calls' = <<>> /\ emitter_raised' = ""
        /\ UNCHANGED global_listeners
        /\ UNCHANGED service_vars
        /\ UNCHANGED timeout_vars
        /\ UNCHANGED codec_vars

BindAll ==
    \E listener \in ListenerInputs :
        /\ listener \notin global_listeners => Registrations < MaxRegistrations
        /\ IF listener.callable
           THEN /\ global_listeners' = global_listeners \cup {listener}
                /\ emitter_raised' = ""
           ELSE /\ global_listeners' = global_listeners
                /\ emitter_raised' = "ValueError"
        /\ emitted' = "" /\ calls' = <<>>
        /\ UNCHANGED listeners
        /\ UNCHANGED service_vars
        /\ UNCHANGED timeout_vars
        /\ UNCHANGED codec_vars

UnbindAll ==
    \E listener \in ListenerInputs :
        /\ global_listeners' = global_listeners \ {listener}
        /\ emitted' = "" /\ calls' = <<>> /\ emitter_raised' = ""
        /\ UNCHANGED listeners
        /\ UNCHANGED service_vars
        /\ UNCHANGED timeout_vars
        /\ UNCHANGED codec_vars

\* emit_event: the global listeners and then those bound to the event's
\* name, each set in one of its orders
EmitEvent ==
    \E event_name \in EmitterEventNames :
        \E first \in Orders(global_listeners), second \in Orders(listeners[event_name]) :
            LET result == emit_event(first \o second, <<>>)
            IN /\ emitted' = event_name
               /\ calls' = result.calls
               /\ emitter_raised' = result.raised
               /\ UNCHANGED <<listeners, global_listeners>>
               /\ UNCHANGED service_vars
               /\ UNCHANGED timeout_vars
               /\ UNCHANGED codec_vars

EmitterNext == Bind \/ Unbind \/ BindAll \/ UnbindAll \/ EmitEvent

EmitterSpec == Init /\ [][EmitterNext]_vars

(***************************************************************************)
(* A Timeout of its own: its methods are called in any order while the     *)
(* reactor's clock runs.                                                   *)
(***************************************************************************)
\* Timeout(duration, callback, start_now)
TimeoutInit ==
    /\ InitService
    /\ InitCodec
    /\ InitEmitter
    /\ \E duration \in 1..MaxDuration, start_now \in BOOLEAN :
          timer = IF start_now THEN Timeout_start(Timeout(duration))
                  ELSE Timeout(duration)
    /\ timed_out = FALSE
    /\ callbacks = 0
    /\ timer_step = "init"

TimeoutStart ==
    /\ timer' = Timeout_start(timer)
    /\ timed_out' = FALSE
    /\ callbacks' = 0
    /\ timer_step' = "start"
    /\ UNCHANGED <<service_vars, codec_vars, emitter_vars>>

TimeoutStop ==
    /\ timer' = Timeout_stop(timer)
    /\ callbacks' = 0
    /\ timer_step' = "stop"
    /\ UNCHANGED timed_out
    /\ UNCHANGED <<service_vars, codec_vars, emitter_vars>>

\* reset(duration): 0 stands for reset() and reset(None)
TimeoutReset ==
    \E duration \in 0..MaxDuration :
        /\ timer' = Timeout_reset(timer, duration)
        /\ callbacks' = 0
        /\ timer_step' = "reset"
        /\ UNCHANGED timed_out
        /\ UNCHANGED <<service_vars, codec_vars, emitter_vars>>

\* the reactor runs the DelayedCall: _trigger
TimeoutTrigger ==
    /\ Due(timer)
    /\ timer' = Timeout_trigger(timer)
    /\ timed_out' = TRUE
    /\ callbacks' = 1
    /\ timer_step' = "_trigger"
    /\ UNCHANGED <<service_vars, codec_vars, emitter_vars>>

\* a second passes on the pending DelayedCall
TimeoutTick ==
    /\ timer.active
    /\ ~Due(timer)
    /\ timer' = Tick_timer(timer)
    /\ callbacks' = 0
    /\ timer_step' = "tick"
    /\ UNCHANGED timed_out
    /\ UNCHANGED <<service_vars, codec_vars, emitter_vars>>

TimeoutNext ==
    \/ TimeoutStart
    \/ TimeoutStop
    \/ TimeoutReset
    \/ TimeoutTrigger
    \/ TimeoutTick

TimeoutSpec == TimeoutInit /\ [][TimeoutNext]_vars

(***************************************************************************)
(* Properties                                                              *)
(***************************************************************************)
\* seq holds, for each change on the way from state `from` to state `to`, one
\* event named after the new state with one state_change event right behind
\* it, and no other event named after a state or named state_change
RECURSIVE Published(_, _, _)
Published(seq, from, to) ==
    IF seq = <<>> THEN from = to
    ELSE IF Head(seq).name \notin CONNECTION_STATES \cup {"state_change"}
    THEN Published(Tail(seq), from, to)
    ELSE /\ Len(seq) >= 2
         /\ seq[1].name # from
         /\ seq[1] = [Event(seq[1].name) EXCEPT !.previous = from]
         /\ seq[2] = [Event("state_change") EXCEPT !.previous = from,
                                                  !.current = seq[1].name]
         /\ Published(Tail(Tail(seq)), seq[1].name, to)

Emitted(events, name) == \E i \in DOMAIN events : events[i].name = name

Backoff(k) == Min(2 ^ k, MAX_RECONNECT_DELAY)

\* nothing is left that could still act on the connection
Quiescent ==
    /\ protocol \notin {"open", "closing"}
    /\ connect_attempt \notin {"scheduled", "pending"}
    /\ ~activity_timeout.active /\ ~pong_timeout.active
    /\ ~unavailable_timeout.active /\ ~connect_attempt_timeout.active

\* C1: Connection.send_event hands the event to the Transport when the
\* Connection state is 'connected'; in every other state it raises
\* ConnectionError, sends nothing and leaves the Connection state unchanged.
C1_SendEvent ==
    [][ /\ step' = "send_event" =>
            IF c_state = "connected"
            THEN transport_sends' = <<Event("test")>> /\ raised' = ""
            ELSE /\ raised' = "ConnectionError"
                 /\ transport_sends' = <<>> /\ frames' = <<>>
                 /\ c_state' = c_state /\ c_events' = <<>>
        /\ raised' = "ConnectionError" =>
            /\ c_state # "connected"
            /\ transport_sends' = <<>> /\ frames' = <<>> /\ c_state' = c_state
      ]_vars

C1_Witness ==
    /\ step = "send_event" /\ c_state = "connected"
    /\ transport_sends = <<Event("test")>> /\ frames = <<Event("test")>>

\* C2: every change of the Connection state from S to S' publishes exactly one
\* event named S' with previous = S, immediately followed by exactly one
\* state_change event with previous = S and current = S'; assigning the state
\* it already has publishes nothing.
C2_StateChangeEvents ==
    [][Published(c_events', c_state, c_state')]_vars

C2_Witness ==
    /\ step = "_on_event" /\ c_state = "connected" /\ c_prev_state = "unavailable"
    /\ c_events = << [Event("connected") EXCEPT !.previous = "unavailable"],
                     [Event("state_change") EXCEPT !.previous = "unavailable",
                                                   !.current = "connected"] >>


\* C3 (as stated): with k consecutive failed connect attempts since the service
\* started or since the last successful connect, the delay announced in
\* connecting_in and waited before the next endpoint.connect is min(2^k, 10).
C3_BackoffSinceStart ==
    [][ /\ \A i \in DOMAIN t_events' :
             t_events'[i].name = "connecting_in" =>
                 t_events'[i].delay = Backoff(failed_since_start')
        /\ step' = "do_connect" => waited = Backoff(failed_since_start)
      ]_vars

\* C3 (amended): the same with k counted since the Transport was created or
\* since the last successful connect, a stopService and startService in
\* between not resetting it; after a successful connect the delay is 1 again.
C3_Backoff ==
    [][ /\ \A i \in DOMAIN t_events' :
             t_events'[i].name = "connecting_in" =>
                 /\ t_events'[i].delay = Backoff(failed_attempts')
                 /\ connect_attempt' = "scheduled"
                 /\ connect_wait' = t_events'[i].delay
        /\ step' = "do_connect" =>
             /\ waited = Backoff(failed_attempts)
             /\ endpoint_connects' = 1
        /\ step' = "_connected" => failed_attempts' = 0
      ]_vars

C3_Witness ==
    /\ step = "_failed" /\ failed_attempts = 5
    /\ t_events = << [Event("connecting_in") EXCEPT !.delay = 10] >>
    /\ connect_wait = 10

\* C4: while the service is running, every failed connect attempt, every
\* connect-attempt timeout and every loss of an established connection is
\* followed by another endpoint.connect: when the handler of one of them has
\* returned in a service that was never stopped, a connect is scheduled.
C4_AlwaysReconnects ==
    (/\ t_running /\ ~ever_stopped
     /\ step \in {"_failed", "connect_attempt_timeout", "_lost"})
        => connect_attempt = "scheduled"

\* C5: once stopService has been called, endpoint.connect is not invoked again
\* until the service is started again: a service that is not running has no
\* connect scheduled or pending and makes no call of endpoint.connect.
C5_NoConnectAfterStop ==
    ~t_running =>
        /\ connect_attempt \notin {"scheduled", "pending"}
        /\ endpoint_connects = 0

C5_Witness ==
    /\ ~t_running /\ ever_stopped /\ step = "tick"
    /\ connect_attempt = "cancelled" /\ t_state = "disconnecting"

\* C6: after stopService, in any Connection state, the Connection state
\* becomes 'disconnected' and stays so until the service is started again:
\* once nothing is left to happen in a service that was started, stopped and
\* not started again, it is 'disconnected'.
C6_DisconnectedAfterStop ==
    (/\ ~c_running /\ ever_stopped /\ ~restarted /\ Quiescent
     /\ c_state # "initialized")
        => c_state = "disconnected"

\* C7: whenever the Transport emits 'disconnected', the Connection state
\* becomes 'connecting' if the service is running at that moment and
\* 'disconnected' if it is not.
C7_OnTransportDisconnected ==
    Emitted(t_events, "disconnected") =>
        c_state = IF c_running THEN "connecting" ELSE "disconnected"

C7_Witness ==
    /\ step = "_lost" /\ Emitted(t_events, "disconnected")
    /\ ~c_running /\ c_state = "disconnected" /\ c_prev_state = "connected"

\* C8: the unavailable timeout is armed from 'started_connecting' for at most
\* 30 seconds, is neither postponed nor stopped by anything but a
\* pusher:connection_established, and moves the Connection to 'unavailable'
\* when it fires; a pusher:connection_established received in 'unavailable'
\* moves the Connection to 'connected'.
C8_Unavailable ==
    [][ /\ Emitted(t_events', "started_connecting") =>
             /\ unavailable_timeout'.active
             /\ unavailable_timeout'.left <= TIME_BEFORE_UNAVAILABLE_STATE
             /\ c_state' = "connecting"
        /\ (unavailable_timeout.active /\ unavailable_timeout'.active) =>
             unavailable_timeout'.left <= unavailable_timeout.left
        /\ (unavailable_timeout.active /\ ~unavailable_timeout'.active) =>
             \/ step' = "go_unavailable"
             \/ /\ step' = "_on_event"
                /\ received'.name = CONNECTION_ESTABLISHED
                /\ ~received'.has_channel
        /\ step' = "go_unavailable" => c_state' = "unavailable"
        /\ (/\ step' = "_on_event"
            /\ received'.name = CONNECTION_ESTABLISHED
            /\ ~received'.has_channel
            /\ c_state = "unavailable") => c_state' = "connected"
      ]_vars

C8_Witness ==
    /\ step = "go_unavailable" /\ ~ever_stopped
    /\ c_state = "unavailable" /\ c_prev_state = "connecting"
    /\ connect_attempt = "pending"

\* C9: the Connection enters 'unavailable' only from 'connecting'.
C9_UnavailableOnlyFromConnecting ==
    c_state = "unavailable" => c_prev_state = "connecting"

C11_PongTimeout ==
    [][ /\ (step' = "keepalive" /\ Emitted(frames', PING)) =>
             /\ pong_timeout'.active
             /\ pong_timeout'.left = PONG_TIMEOUT_DURATION
        /\ (pong_timeout.active /\ pong_timeout'.active) =>
             pong_timeout'.left =
                 IF step' = "tick" THEN pong_timeout.left - 1 ELSE pong_timeout.left
        /\ (pong_timeout.active /\ ~pong_timeout'.active) =>
             \/ step' = "pong_timeout"
             \/ step' = "_on_event" /\ received' = Event(PONG)
             \/ Emitted(t_events', "disconnected")
        /\ (step' = "pong_timeout" /\ t_state = "connected") =>
             /\ disconnect_calls' = 1
             /\ protocol' = "closing"
             /\ t_state' = "reconnecting"
             /\ endpoint_connects' = 0
        /\ (step' = "_lost" /\ t_state = "reconnecting") =>
             /\ connect_attempt' = "scheduled"
             /\ connect_wait' = 1
        /\ (step' = "_on_event" /\ received' = Event(PONG)) =>
             /\ ~pong_timeout'.active
             /\ activity_timeout'.active
             /\ disconnect_calls' = 0
             /\ t_state' = t_state
        /\ (t_state = "connected" /\ t_state' = "reconnecting") =>
             step' = "pong_timeout"
      ]_vars

C11_Witness ==
    /\ step = "pong_timeout" /\ c_state = "connected" /\ c_running
    /\ disconnect_calls = 1 /\ t_state = "reconnecting" /\ protocol = "closing"

\* C12: every pusher:ping received on the open socket is answered with
\* exactly one pusher:pong frame.
C12_PongForEveryPing ==
    (step = "_on_event" /\ received = Event(PING) /\ protocol = "open")
        => frames = <<Event(PONG)>>

\* C13: every received pusher:error with a code in [4000, 4100), in
\* ERROR_CODES or not, with a message or not, stops the service: running is
\* false and no connect is scheduled or pending.
C13_FatalErrorStops ==
    (/\ step = "_on_event" /\ received.name = ERROR /\ ~received.has_channel
     /\ received.data.has_code
     /\ received.data.code >= 4000 /\ received.data.code < 4100)
        => /\ ~c_running /\ ~t_running
           /\ connect_attempt \notin {"scheduled", "pending"}

\* a pusher:error that is no channel event was received in the step
ErrorReceived(event) == event.name = ERROR /\ ~event.has_channel

FatalCode(code) == code >= 4000 /\ code < 4100

\* C14 (as stated): every received pusher:error is published once as 'error'
\* with its payload, and for a code outside [4000, 4100), a missing code or a
\* code that is not in ERROR_CODES the service keeps running.
C14_UnknownCodeKeepsRunning ==
    [][ (/\ step' = "_on_event" /\ ErrorReceived(received')
         /\ \/ ~received'.data.has_code
            \/ ~FatalCode(received'.data.code)
            \/ received'.data.code \notin ERROR_CODES) =>
            /\ c_events' = << [received' EXCEPT !.name = "error"] >>
            /\ c_running' = c_running /\ t_running' = t_running
      ]_vars

\* C14 (amended): every received pusher:error is published exactly once as an
\* event named 'error' with its payload, by nothing else, and for a code
\* outside [4000, 4100) or a missing code the service keeps running and the
\* socket is left alone; a code in [4000, 4100) that is not in ERROR_CODES but
\* has a message stops the service.
C14_ErrorReemitted ==
    [][ /\ (step' = "_on_event" /\ ErrorReceived(received')) =>
             /\ c_events' = << [received' EXCEPT !.name = "error"] >>
             /\ (~received'.data.has_code \/ ~FatalCode(received'.data.code)) =>
                    /\ c_running' = c_running /\ t_running' = t_running
                    /\ t_state' = t_state /\ disconnect_calls' = 0
             /\ (/\ received'.data.has_code /\ FatalCode(received'.data.code)
                 /\ received'.data.code \notin ERROR_CODES
                 /\ received'.data.has_message) => (~c_running' /\ ~t_running')
        /\ Emitted(c_events', "error") =>
             (step' = "_on_event" /\ ErrorReceived(received'))
      ]_vars

C14_Witness ==
    /\ step = "_on_event" /\ received = ErrorEvent(TRUE, 4300, TRUE)
    /\ c_events = << [ErrorEvent(TRUE, 4300, TRUE) EXCEPT !.name = "error"] >>
    /\ c_running /\ t_running /\ c_state = "connected"

\* C15: after a fatal pusher:error on an open socket the listeners get 'error'
\* and, once the socket has closed, the 'disconnected' state event, and
\* 'disconnected' is the final state: when nothing is left to happen in the
\* service the error stopped, it is 'disconnected'.
C15_ErrorThenDisconnected ==
    (fatal /\ Quiescent) => c_state = "disconnected"

\* C16: a received event with a channel is passed to on_channel_event exactly
\* once and runs no control handler, whatever its name: nothing is published
\* or sent, nothing raised, and state, socket_id, running, pong_timeout and
\* unavailable_timeout are as before; a received event without a channel is
\* not passed to on_channel_event, nor is anything in any other step.
C16_ChannelEvents ==
    [][ /\ (step' = "_on_event" /\ received'.has_channel) =>
             /\ channel_events' = <<received'>>
             /\ c_events' = <<>> /\ frames' = <<>> /\ transport_sends' = <<>>
             /\ raised' = "" /\ disconnect_calls' = 0
             /\ c_state' = c_state /\ socket_id' = socket_id
             /\ c_running' = c_running /\ t_state' = t_state
             /\ pong_timeout' = pong_timeout
             /\ unavailable_timeout' = unavailable_timeout
             /\ activity_timeout'.active = activity_timeout.active
             /\ activity_timeout'.duration = activity_timeout.duration
        /\ (step' = "_on_event" /\ ~received'.has_channel) => channel_events' = <<>>
        /\ step' # "_on_event" => channel_events' = <<>>
      ]_vars

C16_Witness ==
    /\ step = "_on_event" /\ received.has_channel
    /\ received.name = CONNECTION_ESTABLISHED
    /\ channel_events = <<received>> /\ c_state = "connecting" /\ socket_id = ""

\* a pusher:connection_established that is no channel event was received
EstablishedReceived(event) ==
    event.name = CONNECTION_ESTABLISHED /\ ~event.has_channel

\* C17: whenever the Connection state is 'connected', socket_id is not empty;
\* the step that handles a pusher:connection_established leaves the
\* Connection 'connected' with that event's socket_id.
C17_SocketIdWhenConnected ==
    /\ c_state = "connected" => socket_id \in SocketIds
    /\ (step = "_on_event" /\ EstablishedReceived(received)) =>
           (c_state = "connected" /\ socket_id = received.data.socket_id)

C17_Witness ==
    /\ step = "_on_event" /\ EstablishedReceived(received)
    /\ c_state = "connected" /\ c_prev_state = "connecting" /\ socket_id = "a"

\* C18 (as stated): whenever the Connection state is not 'connected',
\* socket_id is the empty string.
C18_SocketIdCleared ==
    c_state # "connected" => socket_id = ""

\* C18 (amended): socket_id is never cleared: it changes only in the step that
\* handles a pusher:connection_established, to that event's socket_id, and
\* the Connection leaving 'connected' keeps it.
C18_SocketIdKept ==
    [][ /\ socket_id' # socket_id =>
             /\ step' = "_on_event" /\ EstablishedReceived(received')
             /\ socket_id' = received'.data.socket_id
        /\ socket_id # "" => socket_id' # ""
        /\ (c_state = "connected" /\ c_state' # "connected") =>
             (socket_id' = socket_id /\ socket_id' # "")
      ]_vars

C18_Witness ==
    /\ step = "_lost" /\ c_prev_state = "connected" /\ c_state = "connecting"
    /\ socket_id = "a"

\* C19 (as stated): whenever the Connection state is 'connected', the
\* Transport state is 'connected'.
C19_TransportConnected ==
    c_state = "connected" => t_state = "connected"

\* C19 (amended): whenever the Connection state is 'connected', the Transport
\* holds a socket: its state is 'connected' with the socket open, or
\* 'reconnecting' or 'disconnecting' with the socket closing; it is never
\* 'connecting' or 'disconnected'.
C19_ConnectedHasSocket ==
    c_state = "connected" =>
        \/ t_state = "connected" /\ protocol = "open"
        \/ t_state \in {"reconnecting", "disconnecting"} /\ protocol = "closing"

C19_Witness ==
    /\ step = "stopService" /\ c_state = "connected"
    /\ t_state = "disconnecting" /\ protocol = "closing" /\ disconnect_calls = 1

\* C20 (as stated): whenever activity_timeout is active, the Connection state
\* is 'connected'.
C20_ActivityOnlyConnected ==
    activity_timeout.active => c_state = "connected"

\* C20 (amended): whenever activity_timeout is active, the Transport holds a
\* socket (open or closing) and the Connection state is 'connecting',
\* 'unavailable' or 'connected': the timer is started when the Transport
\* connects and stopped when the socket has closed.
C20_ActivityHasSocket ==
    activity_timeout.active =>
        /\ protocol \in {"open", "closing"}
        /\ t_state \in {"connected", "reconnecting", "disconnecting"}
        /\ c_state \in {"connecting", "unavailable", "connected"}

C20_Witness ==
    /\ step = "_connected" /\ c_state = "connecting" /\ t_state = "connected"
    /\ activity_timeout.active
    /\ activity_timeout.left = ACTIVITY_TIMEOUT_DURATION

\* the places of the events with this name in a sequence of events
Places(events, name) == {i \in DOMAIN events : events[i].name = name}

\* C26 (as stated): within one connect call the Transport emits
\* 'started_connecting' before 'connecting_in'.
C26_StartedBeforeConnectingIn ==
    \A i \in Places(t_events, "started_connecting") :
        \A j \in Places(t_events, "connecting_in") : i < j

\* C26 (amended): one connect call emits exactly one 'connecting_in', first,
\* and on the first attempt in a row 'started_connecting' right after it, and
\* schedules the attempt with that delay; 'connected' is emitted alone, by the
\* attempt that was scheduled so and then handed to the endpoint, so every
\* 'connecting_in' precedes the 'connected' of its attempt or the
\* 'connecting_in' of the next connect call.
C26_ConnectingInFirst ==
    [][ /\ Emitted(t_events', "connecting_in") =>
            /\ Cardinality(Places(t_events', "connecting_in")) = 1
            /\ \A j \in Places(t_events', "connecting_in") :
                  /\ \A i \in DOMAIN t_events' :
                        i < j => t_events'[i].name = "disconnected"
                  /\ t_events'[j].delay = connect_wait'
                  /\ Places(t_events', "started_connecting") \subseteq {j + 1}
                  /\ Emitted(t_events', "started_connecting")
                        <=> connect_attempt_count' = 1
            /\ connect_attempt' = "scheduled"
            /\ ~Emitted(t_events', "connected")
        /\ Emitted(t_events', "started_connecting") =>
            Emitted(t_events', "connecting_in")
        /\ Emitted(t_events', "connected") =>
            /\ connect_attempt = "pending"
            /\ t_events' = <<Event("connected")>>
        /\ (connect_attempt' = "pending" /\ connect_attempt # "pending") =>
            (connect_attempt = "scheduled" /\ connect_wait = 0 /\ t_events' = <<>>)
      ]_vars

C26_Witness ==
    /\ step = "startService"
    /\ t_events = << [Event("connecting_in") EXCEPT !.delay = 1],
                     Event("started_connecting") >>
    /\ connect_attempt = "scheduled" /\ connect_wait = 1

\* C21 (as stated): whenever pong_timeout is active, a pusher:ping frame was
\* sent on the current socket and neither a pusher:pong nor a Transport
\* 'disconnected' has occurred since that ping.
C21_PongTimeoutAfterPing ==
    pong_timeout.active => ping_sent

\* the names under which the registry holds a Channel
Names(registry) == {chan.name : chan \in registry}

\* the names under which subscribe builds a Channel and keeps it
PublicNames == {"x", "y"}

\* how many of the events are `name` events for this channel
Count(events, name, channel) ==
    Cardinality({i \in DOMAIN events :
                    /\ events[i].name = name
                    /\ events[i].data.has_channel
                    /\ events[i].data.channel = channel})

\* C22 (as stated): subscribing to x sends exactly one pusher:subscribe for x
\* at once if the Connection is 'connected' and none otherwise; while x is
\* subscribed every transition to 'connected' sends exactly one
\* pusher:subscribe for x, and none is sent at any other moment.  Sending is
\* taken here as handing the event to the Transport.
C22_SubscribeOnConnect ==
    [][\A x \in PublicNames :
        /\ (step' = "subscribe" /\ called_with' = x /\ x \notin Names(channels)
               /\ x \in Names(channels')) =>
              Count(transport_sends', SUBSCRIBE, x) =
                  IF c_state = "connected" THEN 1 ELSE 0
        /\ (c_state # "connected" /\ c_state' = "connected"
               /\ x \in Names(channels')) =>
              Count(transport_sends', SUBSCRIBE, x) = 1
        /\ (Count(transport_sends', SUBSCRIBE, x) > 0 /\ x \in Names(channels')) =>
              \/ step' = "subscribe" /\ called_with' = x
              \/ c_state # "connected" /\ c_state' = "connected"
      ]_vars

\* C23 (as stated): unsubscribe(x) for a subscribed x sends one
\* pusher:unsubscribe for x and removes x from the registry, whatever the
\* Connection state is.
C23_UnsubscribeAnyState ==
    [][(step' = "unsubscribe" /\ called_with' \in Names(channels)) =>
          /\ Count(frames', UNSUBSCRIBE, called_with') = 1
          /\ called_with' \notin Names(channels')
      ]_vars

\* C24: a name is in the registry at most once; subscribe(x) for a subscribed
\* x builds no Channel (none is bound on the Connection), returns the Channel
\* of the registry, leaves the registry as it is and sends nothing.
C24_DuplicateSubscribe ==
    [][ /\ \A c1, c2 \in channels' : c1.name = c2.name => c1 = c2
        /\ (step' = "subscribe" /\ called_with' \in Names(channels)) =>
              /\ channels' = channels
              /\ connected_listeners' = connected_listeners
              /\ returned' \in channels /\ returned'.name = called_with'
              /\ transport_sends' = <<>> /\ frames' = <<>>
              /\ raised' = ""
      ]_vars

C24_Witness ==
    /\ step = "subscribe" /\ called_with = "x"
    /\ c_state = "connected" /\ t_state = "connected"
    /\ channels = {[name |-> "x", id |-> 1]}
    /\ connected_listeners = channels
    /\ returned = [name |-> "x", id |-> 1]
    /\ frames = <<>>

\* C25 (as stated): a received channel event is emitted exactly once on the
\* Channel registered under its channel name and on no other Channel; an
\* event for a name that is not in the registry is emitted on no Channel.
C25_DeliveredOnce ==
    (step = "_on_event" /\ received.has_channel) =>
        IF received.channel \in Names(channels)
        THEN /\ Len(channel_emits) = 1
             /\ channel_emits[1].channel \in channels
             /\ channel_emits[1].channel.name = received.channel
             /\ channel_emits[1].event = received
        ELSE channel_emits = <<>>

\* C25 (amended): the same, but a pusher_internal:subscription_succeeded is
\* emitted on its Channel twice: once as received and once more renamed to
\* pusher:subscription_succeeded; nothing but a received channel event is
\* emitted on a Channel.
C25_Delivered ==
    /\ (step = "_on_event" /\ received.has_channel) =>
          IF received.channel \in Names(channels)
          THEN LET chan == CHOOSE c \in channels : c.name = received.channel
               IN channel_emits =
                     IF received.name = SUBSCRIPTION_SUCCEEDED_INTERNAL
                     THEN << [channel |-> chan, event |-> received],
                             [channel |-> chan,
                              event |-> [received EXCEPT !.name = SUBSCRIPTION_SUCCEEDED]] >>
                     ELSE << [channel |-> chan, event |-> received] >>
          ELSE channel_emits = <<>>
    /\ channel_emits # <<>> => (step = "_on_event" /\ received.has_channel)

C25_Witness ==
    /\ step = "_on_event" /\ received = ChannelEvent("some_channel_event", "x")
    /\ channels = {[name |-> "y", id |-> 1], [name |-> "x", id |-> 2]}
    /\ channel_emits = << [channel |-> [name |-> "x", id |-> 2], event |-> received] >>

\* C29 (as stated): once unsubscribe(x) has removed x and x has not been
\* subscribed again, a transition to 'connected' sends no pusher:subscribe
\* for x, and nothing is emitted on a Channel that is not in the registry.
C29_NoSubscribeAfterUnsubscribe ==
    [][ /\ \A x \in PublicNames \ Names(channels') :
              (c_state # "connected" /\ c_state' = "connected") =>
                  Count(frames', SUBSCRIBE, x) = 0
        /\ \A i \in DOMAIN channel_emits' : channel_emits'[i].channel \in channels'
      ]_vars

\* C30 (as stated): a subscribe that raises leaves the registry and the
\* listeners bound on the Connection as they were and sends nothing, and no
\* pusher:subscribe for a name that subscribe refuses is ever sent.
C30_FailedSubscribeNoEffect ==
    [][ /\ (step' = "subscribe" /\ raised' # "") =>
              /\ channels' = channels
              /\ connected_listeners' = connected_listeners
              /\ frames' = <<>>
        /\ \A x \in ChannelNameInputs \ PublicNames :
              Count(frames', SUBSCRIBE, x) = 0
      ]_vars

\* the Event went through serialize and load, whatever came of it
RoundTripDone == codec_text # NoText /\ (codec_loaded # NoEvent \/ codec_raised # "")

\* C27 (as stated): for every Event with a non-empty name, serialize followed
\* by load returns an Event with the same name, the same channel (none if it
\* had none) and the same data (none or an empty dict if it had none; for
\* pusher names, string data parsed once more).
C27_RoundTripAll ==
    (RoundTripDone /\ codec_event.has_name /\ codec_event.name # "") =>
        /\ codec_raised = ""
        /\ codec_loaded.name = codec_event.name
        /\ codec_loaded.has_channel = codec_event.has_channel
        /\ codec_loaded.channel = codec_event.channel
        /\ IF ~codec_event.has_data
           THEN codec_loaded.data = PyValue("dict", "{}")
           ELSE IF /\ codec_event.name \in PusherNames
                   /\ codec_event.data.type = "str"
                   /\ Parses(codec_event.data.repr)
           THEN codec_loaded.data = json_loads(codec_event.data.repr)
           ELSE codec_loaded.data = codec_event.data

\* C27 (amended): for every Event with a non-empty name serialize succeeds
\* and writes down the name, the data if it is truthy and '' otherwise, and
\* the channel if it is not empty.  Loading that text gives the name back, the
\* channel if it was not empty and none otherwise, and the written data; but
\* for a pusher name written data that is a string is parsed as JSON, which
\* raises ValueError when it is not JSON text, as '' is not.
C27_RoundTrip ==
    LET written == IF codec_event.has_data /\ Truthy(codec_event.data)
                   THEN codec_event.data
                   ELSE PyStr("")
        parsed == codec_event.name \in PusherNames /\ written.type = "str"
    IN /\ (codec_text # NoText) =>
            /\ codec_event.has_name /\ codec_event.name # ""
            /\ codec_text.has_event /\ codec_text.event = codec_event.name
            /\ codec_text.has_data /\ codec_text.data = written
            /\ codec_text.has_channel =
                  (codec_event.has_channel /\ codec_event.channel # "")
            /\ codec_text.has_channel => codec_text.channel = codec_event.channel
       /\ (codec_raised = "BadEventNameError") =>
            (~codec_event.has_name \/ codec_event.name = "")
       /\ (codec_event.has_name /\ codec_event.name # "" /\ RoundTripDone) =>
            IF parsed /\ ~Parses(written.repr)
            THEN codec_raised = "ValueError" /\ codec_loaded = NoEvent
            ELSE /\ codec_raised = ""
                 /\ codec_loaded.has_name /\ codec_loaded.name = codec_event.name
                 /\ codec_loaded.has_channel =
                       (codec_event.has_channel /\ codec_event.channel # "")
                 /\ codec_loaded.has_channel =>
                       codec_loaded.channel = codec_event.channel
                 /\ codec_loaded.has_data
                 /\ codec_loaded.data =
                       IF parsed THEN json_loads(written.repr) ELSE written

C27_Witness ==
    /\ codec_event = EventDict(TRUE, "pusher:test", TRUE, PyStr("{\"a\": 1}"), TRUE, "c")
    /\ codec_text = Text(TRUE, "pusher:test", TRUE, PyStr("{\"a\": 1}"), TRUE, "c")
    /\ codec_loaded =
          EventDict(TRUE, "pusher:test", TRUE, PyValue("dict", "{\"a\": 1}"), TRUE, "c")
    /\ codec_raised = ""

\* how often emit_event called this listener
Called(listener) == Cardinality({i \in DOMAIN calls : calls[i] = listener.id})

\* how often this listener is registered for the event that was emitted
Registered(listener) ==
    (IF listener \in global_listeners THEN 1 ELSE 0)
        + (IF listener \in listeners[emitted] THEN 1 ELSE 0)

\* C28 (as stated): emit_event calls every global listener and every listener
\* bound to the event's name exactly once per registration, and no other;
\* an exception of a listener other than AssertionError is swallowed and the
\* remaining listeners are still called; an AssertionError leaves emit_event.
C28_EmitEvent ==
    emitted # "" =>
        IF \E listener \in global_listeners \cup listeners[emitted] :
              listener.raises = "AssertionError"
        THEN /\ emitter_raised = "AssertionError"
             /\ \A listener \in ListenerInputs : Called(listener) <= Registered(listener)
        ELSE /\ emitter_raised = ""
             /\ \A listener \in ListenerInputs : Called(listener) = Registered(listener)

\* C31: the service can be restarted: a startService that follows a
\* stopService, with no socket left to report its close, schedules a connect
\* (which invokes endpoint.connect when its delay has passed) and leaves the
\* Connection state 'connecting'.
C31_Restart ==
    (step = "startService" /\ ever_stopped /\ protocol \notin {"open", "closing"})
        => /\ connect_attempt = "scheduled"
           /\ c_state = "connecting"

\* C32: the connect-attempt timeout acts on the attempt it was armed for
\* only: when it fires, the service is running and an endpoint.connect is
\* pending; it does not fire during a backoff wait, with no attempt at all, or
\* after the service was stopped.
C32_AttemptTimeout ==
    [][ step' = "connect_attempt_timeout" =>
            (connect_attempt = "pending" /\ t_running) ]_vars

\* C33: a _disconnect called while the Transport state is 'connecting', during
\* the backoff wait or while endpoint.connect is pending, makes the cancelled
\* attempt invoke _failed: when the call has returned the Transport state is
\* not 'reconnecting' and not 'disconnecting'.
C33_CancelledAttemptFails ==
    [][ t_state = "connecting" =>
            t_state' \notin {"reconnecting", "disconnecting"} ]_vars

\* C34: at most one active WebSocket per Transport: while a protocol is open
\* or closing no connect is scheduled and no endpoint.connect is pending, so
\* an attempt is made, and a new protocol stored, only after the previous
\* protocol reported its loss.
C34_OneSocket ==
    protocol \in {"open", "closing"} =>
        connect_attempt \notin {"scheduled", "pending"}

C34_Witness ==
    /\ step = "startService" /\ t_running
    /\ protocol = "closing" /\ t_state = "disconnecting"
    /\ connect_attempt = "succeeded"

\* C35: the activity timeout and the pong timeout are never armed at the same
\* time, in any reachable state.
C35_OneKeepaliveTimer == ~(activity_timeout.active /\ pong_timeout.active)

C35_Witness ==
    /\ step = "_on_event" /\ received = Event("unrecognised")
    /\ c_state = "connected" /\ t_state = "connected"
    /\ pong_timeout.active /\ ~activity_timeout.active

\* C36: when the Transport emits 'disconnected' both activity_timeout and
\* pong_timeout are stopped, and both stay inactive until the Transport next
\* emits 'connected': with no socket neither is armed, and neither callback
\* (the ping, the reconnect) runs without a socket.
C36_TimersStopped ==
    /\ Emitted(t_events, "disconnected") =>
           (~activity_timeout.active /\ ~pong_timeout.active)
    /\ protocol \notin {"open", "closing"} =>
           (~activity_timeout.active /\ ~pong_timeout.active)
    /\ step \in {"keepalive", "pong_timeout"} => protocol \in {"open", "closing"}

C36_Witness ==
    /\ step = "_lost" /\ Emitted(t_events, "disconnected")
    /\ c_running /\ c_prev_state = "connected" /\ connect_attempt = "scheduled"
    /\ protocol = "closed"
    /\ ~activity_timeout.active /\ ~pong_timeout.active

\* C37: after any received event (channel event, control event or
\* unrecognised event, in any Connection state) has been processed,
\* activity_timeout, if it was running, is armed for its full duration.
C37_ActivityReset ==
    [][ (step' = "_on_event" /\ activity_timeout.active) =>
            /\ activity_timeout'.active
            /\ activity_timeout'.left = activity_timeout'.duration ]_vars

\* the steps whose handler may call _connect
ConnectingSteps == {"startService", "_failed", "_lost", "connect_attempt_timeout"}

\* C38 (as stated): the Transport emits 'started_connecting' exactly when a
\* connect is scheduled with no failed attempt since the service start or the
\* last successful connect, never on a retry after a failed attempt, and
\* 'connecting_in' for every scheduled connect, with a delay between 1 and 10.
C38_StartedSinceStart ==
    /\ Emitted(t_events, "started_connecting") => Emitted(t_events, "connecting_in")
    /\ (step \in ConnectingSteps /\ connect_attempt = "scheduled") =>
           Cardinality(Places(t_events, "connecting_in")) = 1
    /\ Emitted(t_events, "connecting_in") =>
           /\ connect_attempt = "scheduled"
           /\ Emitted(t_events, "started_connecting") <=> (failed_since_start = 0)
           /\ \A i \in Places(t_events, "connecting_in") :
                  t_events[i].delay \in 1..MAX_RECONNECT_DELAY

\* C38 (amended): the same with the failed attempts counted since the
\* Transport was created or since the last successful connect, whatever
\* stopService and startService came in between: the first connect scheduled
\* by a startService that follows a failed or cancelled attempt emits
\* 'connecting_in' alone.
C38_StartedConnecting ==
    /\ Emitted(t_events, "started_connecting") => Emitted(t_events, "connecting_in")
    /\ (step \in ConnectingSteps /\ connect_attempt = "scheduled") =>
           Cardinality(Places(t_events, "connecting_in")) = 1
    /\ Emitted(t_events, "connecting_in") =>
           /\ connect_attempt = "scheduled"
           /\ Emitted(t_events, "started_connecting") <=> (failed_attempts = 0)
           /\ Cardinality(Places(t_events, "started_connecting")) <= 1
           /\ \A i \in Places(t_events, "connecting_in") :
                  t_events[i].delay \in 1..MAX_RECONNECT_DELAY

C38_Witness ==
    /\ step = "startService" /\ restarted
    /\ failed_since_start = 0 /\ failed_attempts = 1
    /\ t_events = << [Event("connecting_in") EXCEPT !.delay = 2] >>

\* the Transport holds a socket that has not reported its loss
HasSocket(p) == p \in {"open", "closing"}

\* C39: the Transport emits 'disconnected' only when an established
\* connection is lost, never when a connect attempt fails or is cancelled, and
\* its 'connected' and 'disconnected' events strictly alternate, starting with
\* 'connected': 'connected' is emitted once by _connected when no socket is
\* held, 'disconnected' once by _lost for the socket that is held, and a socket
\* appears and goes with these two events only.
C39_ConnectedDisconnected ==
    [][ /\ Emitted(t_events', "disconnected") =>
             /\ step' = "_lost"
             /\ HasSocket(protocol) /\ ~HasSocket(protocol')
             /\ Cardinality(Places(t_events', "disconnected")) = 1
             /\ Head(t_events').name = "disconnected"
        /\ Emitted(t_events', "connected") =>
             /\ step' = "_connected"
             /\ ~HasSocket(protocol) /\ HasSocket(protocol')
             /\ t_events' = <<Event("connected")>>
        /\ (HasSocket(protocol) /\ ~HasSocket(protocol')) =>
             Emitted(t_events', "disconnected")
        /\ (~HasSocket(protocol) /\ HasSocket(protocol')) =>
             Emitted(t_events', "connected")
      ]_vars

C39_Witness ==
    /\ step = "_connected" /\ t_events = <<Event("connected")>>
    /\ c_state = "connecting" /\ c_prev_state = "connected"
    /\ protocol = "open" /\ failed_attempts = 0

\* C40: a Timeout has at most one scheduled firing at a time: start on an
\* armed Timeout leaves the pending firing where it is and start on an unarmed
\* one schedules it a full duration ahead; stop disarms, and stop on an
\* unarmed Timeout changes nothing; reset on an unarmed Timeout changes
\* nothing; nothing but start arms a Timeout, so after stop the callback is
\* not invoked until start is called again; the callback is invoked by the
\* firing only, once, on a Timeout whose time has come, which becomes inactive
\* and has timed_out set.
C40_Timeout ==
    [][ /\ (timer_step' = "start" /\ timer.active) => timer' = timer
        /\ (timer_step' = "start" /\ ~timer.active) =>
             /\ timer'.active
             /\ timer'.left = timer.duration
             /\ timer'.duration = timer.duration
        /\ timer_step' = "start" => ~timed_out'
        /\ timer_step' = "stop" =>
             /\ ~timer'.active
             /\ timer'.duration = timer.duration
             /\ timed_out' = timed_out
        /\ (timer_step' = "stop" /\ ~timer.active) => timer' = timer
        /\ (timer_step' = "reset" /\ ~timer.active) =>
             (timer' = timer /\ timed_out' = timed_out)
        /\ (~timer.active /\ timer'.active) => timer_step' = "start"
        /\ (timer.active /\ timer'.active /\ timer_step' # "reset") =>
             timer'.left <= timer.left
        /\ callbacks' # 0 => (timer_step' = "_trigger" /\ callbacks' = 1)
        /\ timer_step' = "_trigger" =>
             /\ timer.active /\ timer.left = 0
             /\ ~timer'.active
             /\ timed_out'
             /\ callbacks' = 1
      ]_vars

C40_Witness ==
    /\ timer_step = "start" /\ ~timed_out
    /\ timer.active /\ timer.left < timer.duration

====
